---- MODULE Spec2Model ----
(***************************************************************************)
(* KDMS backend: the periodic collection cycle (scheduler.py), the         *)
(* incident registration rules, the Gemini call wrapper and the jobs that  *)
(* use it (gemini_service.py), and the request handlers that write         *)
(* persisted state (main.py, database.py, sms_service.py).                 *)
(*                                                                         *)
(* Units.  Coordinates are integers in thousandths of a degree, so that    *)
(* 0.5 degree is 500 and "two decimal places" is a multiple of 10.         *)
(* Magnitudes are in tenths (3.5 is 35).  Texts whose content is never     *)
(* inspected by the code are represented by their length in characters.    *)
(* A nullable column is a set: {} is NULL, {v} is the value v.             *)
(***************************************************************************)
EXTENDS Integers, Sequences, FiniteSets, TLC

VARIABLES
    disasters,   \* table disasters: sequence of rows, the row id is the index
    alerts,      \* table alerts: sequence of rows
    risk,        \* counties.risk_score, by county id
    stamped,     \* counties.last_updated is set, by county id
    workers,     \* workers.status / current_disaster_id, by worker id
    cyc,         \* the runs of _collect_and_analyse: position and locals
    dispatches,  \* the calls of send_alert: what each returned, its queued
                 \* background task, and what the task did once it ran
    gen,         \* one call of _generate: position, loop counter, history
    env,         \* what the external services may answer in this run
    call,        \* the last call of a leaf function: its input and its result
    pool,        \* _executor: the callers queued for it and those it runs
    proc,        \* the server process: lifespan and the scheduler
    response     \* the last HTTP response of a handler that writes

vars == <<disasters, alerts, risk, stamped, workers, cyc, dispatches, gen, env, call, pool, proc, response>>

---------------------------------------------------------------------------
(* Bounds of the model. *)

MaxDisasters == 3      \* rows the disasters table may hold
MaxAlerts    == 2      \* rows the alerts table may hold
NumCounties  == 2      \* seeded counties
NumCycles    == 2      \* runs of the collection job that may be in flight
MaxFeatures  == 2      \* features / rows in an answer given to an adapter alone
NumCallers   == 5      \* coroutines that may be inside _generate at once

(* Constants of the program. *)

CountyPrefix     == 10     \* counties[:10]
QuakePrefix      == 5      \* quakes[:5]
MinMagnitude     == 35     \* q["magnitude"] >= 3.5
HighMagnitude    == 50     \* props["mag"] >= 5
MinCluster       == 5      \* len(fires) > 5
HighCluster      == 20     \* len(fires) > 20
FireWindow       == 500    \* fire["lat"] +/- 0.5
SmsCap           == 160    \* len(...) > 160
SmsKeep          == 157    \* result[lang][:157]
EllipsisLen      == 3      \* "..."
MaxScore         == 100    \* min(100, ...)
MaxJitter        == 15     \* random.randint(0, 15)
HotTemp          == 32     \* max(0, temp - 32)
MaxWorkers       == 4      \* _executor = ThreadPoolExecutor(max_workers=4)
GenAttempts      == 3      \* for attempt in range(3)

\* No leaf call made yet; nothing submitted to the executor.
NoCall == [fn |-> "none", input |-> <<>>, raised |-> FALSE, result |-> <<>>]
IdlePool == [queued |-> <<>>, running |-> {}, finished |-> {}]

Counties == 1..NumCounties
Cycles   == 1..NumCycles
Null     == {}

Max(a, b) == IF a >= b THEN a ELSE b
Min(a, b) == IF a <= b THEN a ELSE b

---------------------------------------------------------------------------
(* Seed data: the workers table (seed_data.py).  Worker 1 lives in county  *)
(* 1 and has a phone; worker 2's home town is no county, so its county_id  *)
(* is NULL.  County 2 has no worker.                                       *)

WorkerIds == {1, 2}
WorkerSeed ==
    [w \in WorkerIds |->
        IF w = 1 THEN [phone |-> "+254701000001", county_id |-> {1}]
                 ELSE [phone |-> "+254701000004", county_id |-> Null]]

---------------------------------------------------------------------------
(* External inputs. *)

\* Readings of the weather source (or of _mock_weather): whole millimetres
\* and whole degrees.
CalmReading == [rainfall_mm |-> 0, temp_c |-> 25]
WeatherReadings ==
    [rainfall_mm : {-4, 0, 8, 45}, temp_c : {25, 40}]

\* Answers of the model to the risk prompt, as score_county_risk sees them:
\*   raise       _generate raised
\*   malformed   the text is not JSON
\*   nonnumeric  JSON whose risk_score int() rejects
\*   json        JSON with an integer risk_score
RiskReplies ==
    {[kind |-> "raise", score |-> 0],
     [kind |-> "malformed", score |-> 0],
     [kind |-> "nonnumeric", score |-> 0]}
    \cup [kind : {"json"}, score : {-7, 0, 55, 100, 150}]

\* Seismic events (fetch_earthquakes): E1 has coordinates with more than two
\* decimals, E2 with two, E3 is below the registration magnitude, E4 is strong.
QuakeE1 == [magnitude |-> 42, lat |-> -1234, lng |-> 36822, place |-> 27, depth_km |-> 10]
QuakeE2 == [magnitude |-> 35, lat |-> 1230, lng |-> 36820, place |-> 27, depth_km |-> 10]
QuakeE3 == [magnitude |-> 30, lat |-> 2500, lng |-> 37000, place |-> 27, depth_km |-> 5]
QuakeE4 == [magnitude |-> 55, lat |-> -450, lng |-> 39650, place |-> 27, depth_km |-> 8]

SeverityStrict(mag) ==
    IF mag > HighMagnitude THEN "High"
    ELSE IF mag > MinMagnitude THEN "Medium" ELSE "Low"
Severity(mag) ==
    IF mag >= HighMagnitude THEN "High"
    ELSE IF mag >= MinMagnitude THEN "Medium" ELSE "Low"

\* One feature of the answer, as fetch_earthquakes returns it.
QuakeReading(e) ==
    [magnitude |-> e.magnitude, place |-> e.place, lat |-> e.lat, lng |-> e.lng,
     depth_km |-> e.depth_km, severity |-> Severity(e.magnitude)]

\* A hotspot answer (fetch_wildfires): the code reads only its length and its
\* first point, so a batch is (n, first point).
FireBatch(n, lat, lng) == [n |-> n, lat |-> lat, lng |-> lng]
NoFires == FireBatch(0, 0, 0)

\* Reports a field worker may submit (DisasterReport).
ReportShort ==
    [type |-> "Flood", severity |-> "Medium", county_id |-> {1}, location |-> 10,
     lat |-> Null, lng |-> Null, affected_people |-> 40]
ReportLong ==
    [type |-> "Wildfire", severity |-> "High", county_id |-> Null, location |-> 120,
     lat |-> {3100}, lng |-> {35600}, affected_people |-> 0]

---------------------------------------------------------------------------
(* Pure functions of the registration rules. *)

\* round(x, 2) on a coordinate in thousandths: the nearest multiple of 10,
\* a tie going to the even hundredth.
Round2(x) ==
    LET r == x % 10
        lo == x - r
    IN  IF r < 5 THEN lo
        ELSE IF r > 5 THEN lo + 10
        ELSE IF (lo \div 10) % 2 = 0 THEN lo ELSE lo + 10

\* The columns the seismic rule stores for event q.
QuakeLat(q) == {q.lat}
QuakeLng(q) == {q.lng}

\* SELECT id FROM disasters WHERE type='Earthquake' AND lat=? AND lng=?
\* with (round(q["lat"], 2), round(q["lng"], 2)).
QuakeExisting(q) ==
    {id \in DOMAIN disasters :
        /\ disasters[id].type = "Earthquake"
        /\ Round2(q.lat) \in disasters[id].lat
        /\ Round2(q.lng) \in disasters[id].lng}

\* The cluster query with the window applied to the wrong column.
FireExistingByLng(fire) ==
    {id \in DOMAIN disasters :
        /\ disasters[id].type = "Wildfire"
        /\ \E v \in disasters[id].lng :
              fire.lat - FireWindow <= v /\ v <= fire.lat + FireWindow}

\* SELECT id FROM disasters WHERE type='Wildfire' AND lat BETWEEN ? AND ?
\* with (fire["lat"] - 0.5, fire["lat"] + 0.5).
FireExisting(fire) ==
    {id \in DOMAIN disasters :
        /\ disasters[id].type = "Wildfire"
        /\ \E v \in disasters[id].lat :
              fire.lat - FireWindow <= v /\ v <= fire.lat + FireWindow}

\* The cluster rule's conditions: "if fires:" and "if len(fires) > 5".
FireQualifies(fire) == fire.n > 0 /\ fire.n > MinCluster
\* The severity rule with the larger threshold made inclusive.
FireSeverityInclusive(fire) == IF fire.n >= HighCluster THEN "High" ELSE "Medium"
FireSeverity(fire) == IF fire.n > HighCluster THEN "High" ELSE "Medium"

\* The row insert_disaster writes for data (the description text, which no
\* code reads, is left out).
DisasterRow(data) ==
    [type |-> data.type, severity |-> data.severity, county_id |-> data.county_id,
     location |-> data.location, lat |-> data.lat, lng |-> data.lng,
     affected_people |-> data.affected_people,
     source |-> data.source, status |-> data.status]

QuakeData(q) ==
    [type |-> "Earthquake", severity |-> q.severity, county_id |-> Null,
     location |-> q.place, lat |-> QuakeLat(q), lng |-> QuakeLng(q),
     affected_people |-> 0,
     source |-> "usgs", status |-> "active"]

FireData(fire) ==
    [type |-> "Wildfire", severity |-> FireSeverity(fire), county_id |-> Null,
     location |-> 14, lat |-> {fire.lat}, lng |-> {fire.lng},
     affected_people |-> 0,
     source |-> "nasa_firms", status |-> "active"]

ReportData(r) ==
    [type |-> r.type, severity |-> r.severity, county_id |-> r.county_id,
     location |-> r.location, lat |-> r.lat, lng |-> r.lng,
     affected_people |-> r.affected_people,
     source |-> "field_worker", status |-> "active"]

\* A resolve that toggles the status instead of setting it.
ToggledStatus(old) == IF old = "resolved" THEN "active" ELSE "resolved"

\* The status an UPDATE ... SET status='resolved' leaves in a row.
ResolvedStatus(old) == "resolved"

---------------------------------------------------------------------------
(* Job 1: county risk scoring (gemini_service.py). *)

\* int(x) of Python on the half-integer h/2: truncation towards zero.
TruncHalf(h) == IF h >= 0 THEN h \div 2 ELSE -((-h) \div 2)

\* _fallback_risk: min(100, int(rainfall*2.5 + max(0, temp-32)*1.5 + jitter)).
FallbackScore(weather, jitter) ==
    Min(MaxScore,
        TruncHalf(5 * weather.rainfall_mm
                  + 3 * Max(0, weather.temp_c - HotTemp) + 2 * jitter))

FallbackType(weather) ==
    IF weather.rainfall_mm > 20 THEN "Flood"
    ELSE IF weather.temp_c > 36 /\ weather.rainfall_mm < 2 THEN "Drought"
    ELSE "None"

fallback_risk(weather, jitter) ==
    [risk_score |-> FallbackScore(weather, jitter),
     disaster_type |-> FallbackType(weather), confidence |-> "Low"]

\* max(0, min(100, int(result.get("risk_score", 0)))).
ClampScore(s) == Max(0, Min(MaxScore, s))

\* A scorer that answers an unreadable text with a score of 0 of its own.
score_county_risk_lenient(weather, reply, jitter) ==
    IF reply.kind = "json"
    THEN [risk_score |-> ClampScore(reply.score),
          disaster_type |-> "Flood", confidence |-> "High"]
    ELSE IF reply.kind = "raise" THEN fallback_risk(weather, jitter)
    ELSE [risk_score |-> 0, disaster_type |-> "None", confidence |-> "Low"]

score_county_risk(weather, reply, jitter) ==
    IF reply.kind = "json"
    THEN [risk_score |-> ClampScore(reply.score),
          disaster_type |-> "Flood", confidence |-> "High"]
    ELSE fallback_risk(weather, jitter)

---------------------------------------------------------------------------
(* The collection cycle (scheduler.py, _collect_and_analyse).  One action  *)
(* per suspension point that reads or writes persisted state.  The locals  *)
(* of a run are i (the county loop), weather and risk, quakes and k (the   *)
(* quake loop), fires and existing.  The other fields are records for the  *)
(* properties: jitter (what random.randint gave the fallback), before (the *)
(* number of incidents when the hotspots were fetched), fireId (the row id *)
(* insert_disaster returned for the cluster, which the code drops),        *)
(* matched (the status of the rows the last SELECT returned), faults (the  *)
(* sources that failed in this run), ran (the fetches made), writeFailed   *)
(* (a write raised).                                                       *)

NoRisk == [risk_score |-> 0, disaster_type |-> "None", confidence |-> "None"]

IdleCycle ==
    [pc |-> "idle", i |-> 0, weather |-> CalmReading, jitter |-> 0, risk |-> NoRisk,
     quakes |-> <<>>, k |-> 0,
     fires |-> NoFires, before |-> 0, existing |-> FALSE, fireId |-> 0,
     matched |-> {}, faults |-> {}, ran |-> {}, writeFailed |-> FALSE]

\* fetch_weather: the reading of the source, or on any failure (no key, an
\* exception, a status other than 200) what _mock_weather makes up.
fetch_weather(failed, reading, mock) ==
    [raised |-> FALSE, value |-> IF failed THEN mock ELSE reading]

\* The seismic adapter without its handler.
fetch_earthquakes_unguarded(failed, feed) ==
    [raised |-> failed, value |-> feed]

\* fetch_earthquakes: the features of the answer, or [] on any failure.
fetch_earthquakes(failed, feed) ==
    [raised |-> FALSE, value |-> IF failed THEN <<>> ELSE feed]

\* fetch_wildfires: the rows of the answer, or [] without a key or on any
\* failure.
fetch_wildfires(failed, batch) ==
    [raised |-> FALSE, value |-> IF failed THEN NoFires ELSE batch]

\* A run that stays where the call raised.
RaisedHangs(run) == [run EXCEPT !.pc = "hung"]

\* A run in which an awaited call raised: _collect_and_analyse has no
\* handler, the exception leaves the coroutine.
Raised(run) == [run EXCEPT !.pc = "aborted"]

\* Statuses of the rows ids.
StatusOf(ids) == {disasters[id].status : id \in ids}

\* get_all_counties: ORDER BY name, which is not the order of the ids.
CountiesByName == [n \in 1..Len(risk) |-> Len(risk) + 1 - n]

\* A loop over all the counties.
ScoredAll == Len(risk)

\* counties[:10]
ScoredPrefix == Min(CountyPrefix, Len(risk))
\* A quake loop over the whole answer.
QuakesHandledAll(c) == Len(cyc[c].quakes)

\* quakes[:5]
QuakesHandled(c) == Min(QuakePrefix, Len(cyc[c].quakes))

OtherIdle(c) == \A o \in Cycles \ {c} : cyc[o].pc = "idle"

\* APScheduler fires _job, which runs the coroutine on a loop of its own.
StartCycle(c) ==
    /\ cyc[c].pc = "idle"
    /\ cyc' = [cyc EXCEPT ![c] = [IdleCycle EXCEPT !.pc = "counties", !.i = 1]]
    /\ UNCHANGED <<disasters, alerts, risk, stamped, workers, dispatches, gen, env, call, pool, proc, response>>

\* The same, for a deployment in which a run starts only after the previous
\* one has returned.
StartCycleAlone(c) ==
    /\ OtherIdle(c)
    /\ StartCycle(c)

\* A scorer that gets answers of the model with no key configured.
ScorerRepliesUnkeyed == env.riskReplies

\* What _generate can give the scorer: with no key _init_model returns None
\* and _generate raises "Gemini API key not configured" before the loop.
ScorerReplies ==
    IF env.configured THEN env.riskReplies ELSE {[kind |-> "raise", score |-> 0]}

\* One iteration of the county loop: fetch_weather, score_county_risk,
\* update_county_risk.
ScoreCounty(c) ==
    /\ cyc[c].pc = "counties"
    /\ cyc[c].i <= ScoredPrefix
    /\ \E failed \in env.weatherFails, w \in env.readings, m \in env.mocks,
          r \in ScorerReplies, j \in env.jitter, wr \in env.writes :
         LET county == CountiesByName[cyc[c].i]
             fetched == fetch_weather(failed, w, m)
             res == score_county_risk(fetched.value, r, j)
             run == [cyc[c] EXCEPT
                       !.weather = fetched.value, !.jitter = j, !.risk = res,
                       !.faults = @ \cup (IF failed THEN {"weather"} ELSE {})
                                    \cup (IF r.kind # "json" THEN {"score"} ELSE {})]
         IN  IF fetched.raised
             THEN /\ cyc' = [cyc EXCEPT ![c] = Raised(cyc[c])]
                  /\ UNCHANGED <<risk, stamped>>
             ELSE IF wr = "error"
             THEN /\ cyc' = [cyc EXCEPT ![c] = Raised([run EXCEPT !.writeFailed = TRUE])]
                  /\ UNCHANGED <<risk, stamped>>
             ELSE /\ risk' = [risk EXCEPT ![county] = res.risk_score]
                  /\ stamped' = [stamped EXCEPT ![county] = TRUE]
                  /\ cyc' = [cyc EXCEPT ![c] = [run EXCEPT !.i = @ + 1]]
    /\ UNCHANGED <<disasters, alerts, workers, dispatches, gen, env, call, pool, proc, response>>

\* quakes = await fetch_earthquakes()
FetchQuakes(c) ==
    /\ cyc[c].pc = "counties"
    /\ cyc[c].i > ScoredPrefix
    /\ \E failed \in env.quakeFails, feed \in env.quakeFeeds :
         LET fetched == fetch_earthquakes(failed, feed)
         IN  IF fetched.raised
             THEN cyc' = [cyc EXCEPT ![c] =
                            Raised([cyc[c] EXCEPT !.faults = @ \cup {"quakes"}])]
             ELSE cyc' = [cyc EXCEPT
                            ![c].pc = "quake_loop", ![c].quakes = fetched.value,
                            ![c].k = 1, ![c].ran = @ \cup {"quakes"},
                            ![c].faults = @ \cup (IF failed THEN {"quakes"} ELSE {})]
    /\ UNCHANGED <<disasters, alerts, risk, stamped, workers, dispatches, gen, env, call, pool, proc, response>>

\* The magnitude test and the SELECT for quakes[k].
QuakeCheck(c) ==
    /\ cyc[c].pc = "quake_loop"
    /\ cyc[c].k <= QuakesHandled(c)
    /\ LET q == cyc[c].quakes[cyc[c].k]
       IN  IF q.magnitude >= MinMagnitude
           THEN IF QuakeExisting(q) = {}
                THEN cyc' = [cyc EXCEPT ![c].pc = "quake_insert", ![c].matched = {}]
                ELSE cyc' = [cyc EXCEPT ![c].k = @ + 1,
                                        ![c].matched = StatusOf(QuakeExisting(q))]
           ELSE cyc' = [cyc EXCEPT ![c].k = @ + 1]
    /\ UNCHANGED <<disasters, alerts, risk, stamped, workers, dispatches, gen, env, call, pool, proc, response>>

\* "if not existing: await insert_disaster({...})" for quakes[k].
QuakeInsert(c) ==
    /\ cyc[c].pc = "quake_insert"
    /\ Len(disasters) < MaxDisasters
    /\ \E wr \in env.writes :
         IF wr = "error"
         THEN /\ cyc' = [cyc EXCEPT ![c] = Raised([cyc[c] EXCEPT !.writeFailed = TRUE])]
              /\ UNCHANGED disasters
         ELSE /\ disasters' = Append(disasters,
                                     DisasterRow(QuakeData(cyc[c].quakes[cyc[c].k])))
              /\ cyc' = [cyc EXCEPT ![c].pc = "quake_loop", ![c].k = @ + 1,
                                      ![c].matched = {}]
    /\ UNCHANGED <<alerts, risk, stamped, workers, dispatches, gen, env, call, pool, proc, response>>

\* fires = await fetch_wildfires(), "if fires:" and "if len(fires) > 5:".
FetchFires(c) ==
    /\ cyc[c].pc = "quake_loop"
    /\ cyc[c].k > QuakesHandled(c)
    /\ \E failed \in env.fireFails, batch \in env.fireBatches :
         LET fetched == fetch_wildfires(failed, batch)
             b == fetched.value
         IN  IF fetched.raised
             THEN cyc' = [cyc EXCEPT ![c] =
                            Raised([cyc[c] EXCEPT !.faults = @ \cup {"fires"}])]
             ELSE cyc' = [cyc EXCEPT
                            ![c].fires = b, ![c].before = Len(disasters),
                            ![c].ran = @ \cup {"fires"},
                            ![c].faults = @ \cup (IF failed THEN {"fires"} ELSE {}),
                            ![c].pc = IF FireQualifies(b) THEN "fire_check" ELSE "done"]
    /\ UNCHANGED <<disasters, alerts, risk, stamped, workers, dispatches, gen, env, call, pool, proc, response>>

\* The SELECT of the cluster rule, on fires[0].
FireCheck(c) ==
    /\ cyc[c].pc = "fire_check"
    /\ LET found == FireExisting(cyc[c].fires) # {}
       IN  cyc' = [cyc EXCEPT ![c].existing = found,
                              ![c].matched = StatusOf(FireExisting(cyc[c].fires)),
                              ![c].pc = IF found THEN "done" ELSE "fire_insert"]
    /\ UNCHANGED <<disasters, alerts, risk, stamped, workers, dispatches, gen, env, call, pool, proc, response>>

\* "if not existing: await insert_disaster({...})" for the cluster.
FireInsert(c) ==
    /\ cyc[c].pc = "fire_insert"
    /\ Len(disasters) < MaxDisasters
    /\ \E wr \in env.writes :
         IF wr = "error"
         THEN /\ cyc' = [cyc EXCEPT ![c] = Raised([cyc[c] EXCEPT !.writeFailed = TRUE])]
              /\ UNCHANGED disasters
         ELSE /\ disasters' = Append(disasters, DisasterRow(FireData(cyc[c].fires)))
              /\ cyc' = [cyc EXCEPT ![c].pc = "done", ![c].fireId = Len(disasters) + 1,
                                      ![c].matched = {}]
    /\ UNCHANGED <<alerts, risk, stamped, workers, dispatches, gen, env, call, pool, proc, response>>

\* The coroutine returns; _run_async closes the loop.
EndCycle(c) ==
    /\ cyc[c].pc = "done"
    /\ cyc' = [cyc EXCEPT ![c] = IdleCycle]
    /\ UNCHANGED <<disasters, alerts, risk, stamped, workers, dispatches, gen, env, call, pool, proc, response>>

\* The exception reaches _run_async, which closes the loop and lets it on
\* to the scheduler; the job runs again at the next tick.
AbortCycle(c) ==
    /\ cyc[c].pc = "aborted"
    /\ cyc' = [cyc EXCEPT ![c] = IdleCycle]
    /\ UNCHANGED <<disasters, alerts, risk, stamped, workers, dispatches, gen, env, call, pool, proc, response>>

\* Any step of run c between its start and its return to the scheduler.
CycleStep(c) ==
    \/ ScoreCounty(c)
    \/ FetchQuakes(c)
    \/ QuakeCheck(c)
    \/ QuakeInsert(c)
    \/ FetchFires(c)
    \/ FireCheck(c)
    \/ FireInsert(c)
    \/ EndCycle(c)
    \/ AbortCycle(c)

\* The most steps a run can still take: the counties left of the prefix,
\* the fetch, two per quake left of the first five, the fetch, the check and
\* the insert of the cluster, the return.
StepsLeft(run) ==
    LET handled == Min(QuakePrefix, Len(run.quakes))
        quakesLeft == Max(0, handled + 1 - run.k)
    IN  CASE run.pc = "idle"         -> 0
          [] run.pc \in {"done", "aborted"} -> 1
          [] run.pc = "fire_insert"  -> 2
          [] run.pc = "fire_check"   -> 3
          [] run.pc = "quake_loop"   -> 2 * quakesLeft + 4
          [] run.pc = "quake_insert" -> 2 * quakesLeft + 3
          [] run.pc = "counties"     ->
                 Max(0, ScoredPrefix + 1 - run.i) + 2 * QuakePrefix + 5
          [] OTHER                   -> 0
MaxSteps == CountyPrefix + 2 * QuakePrefix + 5

---------------------------------------------------------------------------
(* The source adapters on their own (data_sources.py), by what the         *)
(* transport did and what the body held.  Each has the shape               *)
(*     [if not KEY: return <default>]                                      *)
(*     try: resp = await client.get(url)                                   *)
(*          if resp.status_code == 200: <read the body>; return <value>    *)
(*     except Exception as e: print(...)                                   *)
(*     return <default>                                                    *)

\* What the transport did: no key configured (the request is not made), the
\* client raised (timeout, connection error), a status other than 200, 200.
Transports == {"nokey", "exception", "status", "ok"}

\* What a body of status 200 holds: not JSON, JSON that is not an object
\* (null, a list), an object lacking a field the code indexes, an object
\* lacking only the optional rain block, everything.
Bodies == {"notjson", "notobject", "incomplete", "norain", "full"}

\* Whether reading the answer raises inside the try block: client.get
\* raised, resp.json() raised, or a subscript or .get on the parsed body did.
ReadRaises(t, body) ==
    t = "exception" \/ (t = "ok" /\ body \in {"notjson", "notobject", "incomplete"})

\* Which return statement an adapter reaches: the early one or the last one
\* ("default"), or the one inside the try block ("value").
AdapterPath(keyed, t, body) ==
    IF keyed /\ t = "nokey" THEN "default"
    ELSE IF ReadRaises(t, body) THEN "default"
    ELSE IF t = "ok" THEN "value" ELSE "default"

\* The dict fetch_weather builds from the body, and the one _mock_weather
\* makes up; w gives the two fields the scorer reads.
RealWeather(w, body) ==
    [county |-> "c", lat |-> 0, lng |-> 0, temp_c |-> w.temp_c, humidity |-> 60,
     wind_speed |-> 5, description |-> "clear sky",
     rainfall_mm |-> IF body = "norain" THEN 0 ELSE w.rainfall_mm]
MockWeather(m) ==
    [county |-> "c", temp_c |-> m.temp_c, humidity |-> 60, wind_speed |-> 5,
     description |-> "clear sky", rainfall_mm |-> m.rainfall_mm, mock |-> TRUE]

\* A feature of the seismic answer: an event, or one the loop body raises on
\* (a key missing, a magnitude of null).
Feature(ok, e) == [ok |-> ok, event |-> e]
QuakeE5 == [magnitude |-> 50, lat |-> 600, lng |-> 34500, place |-> 27, depth_km |-> 12]
QuakeE6 == [magnitude |-> 34, lat |-> -2100, lng |-> 40100, place |-> 27, depth_km |-> 3]
QuakeE7 == [magnitude |-> 49, lat |-> 4700, lng |-> 35900, place |-> 27, depth_km |-> 20]
Features ==
    {Feature(TRUE, e) : e \in {QuakeE2, QuakeE3, QuakeE4, QuakeE5, QuakeE6, QuakeE7}}
        \cup {Feature(FALSE, QuakeE4)}

\* A row of the hotspot answer: one float() accepts, or one it rejects.
FireRows == {[ok |-> TRUE, lat |-> 3100, lng |-> 35600], [ok |-> FALSE, lat |-> 0, lng |-> 0]}

ListsOf(S) == UNION {[1..n -> S] : n \in 0..MaxFeatures}

\* The loop over data["features"]: results.append({...}) for each.
ReadFeatures(fs) == [n \in DOMAIN fs |-> QuakeReading(fs[n].event)]

\* The loop over the rows: "try: fires.append({...}) except Exception: continue".
ReadRows(rows) ==
    LET Pick(r) == r.ok
        good == SelectSeq(rows, Pick)
    IN  [n \in DOMAIN good |-> [lat |-> good[n].lat, lng |-> good[n].lng]]

\* The record of a call.
Called(fn, input, path, value, default) ==
    [fn |-> fn, input |-> input, raised |-> path = "raised",
     result |-> IF path = "value" THEN value ELSE default]

CallWeather ==
    /\ call = NoCall
    /\ \E t \in Transports, body \in Bodies, w \in env.readings, m \in env.mocks :
         LET path == AdapterPath(TRUE, t, body)
         IN  call' = Called("fetch_weather", <<t, body>>, path,
                            fetch_weather(path # "value", RealWeather(w, body),
                                          MockWeather(m)).value,
                            MockWeather(m))
    /\ UNCHANGED <<disasters, alerts, risk, stamped, workers, cyc, dispatches, gen, env,
                   pool, proc, response>>

CallEarthquakes ==
    /\ call = NoCall
    /\ \E t \in Transports \ {"nokey"}, body \in {"notjson", "notobject", "full"},
          fs \in ListsOf(Features) :
         LET broken == \E n \in DOMAIN fs : ~fs[n].ok
             path == AdapterPath(FALSE, t, IF broken THEN "incomplete" ELSE body)
         IN  call' = Called("fetch_earthquakes", <<t, body, fs>>, path,
                            fetch_earthquakes(path # "value", ReadFeatures(fs)).value,
                            <<>>)
    /\ UNCHANGED <<disasters, alerts, risk, stamped, workers, cyc, dispatches, gen, env,
                   pool, proc, response>>

CallWildfires ==
    /\ call = NoCall
    /\ \E t \in Transports, rows \in ListsOf(FireRows) :
         LET path == AdapterPath(TRUE, t, "full")
         IN  call' = Called("fetch_wildfires", <<t, "full", rows>>, path,
                            ReadRows(rows), <<>>)
    /\ UNCHANGED <<disasters, alerts, risk, stamped, workers, cyc, dispatches, gen, env,
                   pool, proc, response>>

\* A parsed JSON value: what kind it is and, of an object, its keys.
Json(kind, keys) == [kind |-> kind, keys |-> keys]

\* What resp.json() gives for a body that parses.
ParsedBody(body) ==
    CASE body = "notobject"  -> Json("array", {})
      [] body = "incomplete" -> Json("object", {"error", "reason"})
      [] OTHER               -> Json("object", {"daily", "latitude", "longitude"})

\* fetch_forecast: "if resp.status_code == 200: return resp.json()", the
\* parsed body as it is; only resp.json() itself can raise on the body.
CallForecast ==
    /\ call = NoCall
    /\ \E t \in Transports \ {"nokey"}, body \in Bodies \ {"norain"} :
         LET path == AdapterPath(FALSE, t, IF body = "notjson" THEN body ELSE "full")
         IN  call' = Called("fetch_forecast", <<t, body>>, path,
                            ParsedBody(body), Json("object", {}))
    /\ UNCHANGED <<disasters, alerts, risk, stamped, workers, cyc, dispatches, gen, env,
                   pool, proc, response>>

---------------------------------------------------------------------------
(* The executor every model invocation goes through (gemini_service.py     *)
(* _executor, _generate).  Callers are the coroutines inside _generate: the *)
(* cycle on its own loop and the request handlers on the server's.         *)

Callers == 1..NumCallers

\* Callers with a work item in the executor's queue.
Queued == {pool.queued[n] : n \in DOMAIN pool.queued}

\* A pool that starts a thread for every work item.
SlotAlwaysFree == TRUE

\* ThreadPoolExecutor runs at most max_workers threads; a work item is
\* taken from the queue by a thread that is not running another.
SlotFree == Cardinality(pool.running) < MaxWorkers

\* loop.run_in_executor(_executor, model.generate_content, prompt): the
\* work item is queued and the caller awaits its future.
run_in_executor(k) ==
    /\ k \notin Queued \cup pool.running
    /\ pool' = [pool EXCEPT !.queued = Append(@, k), !.finished = @ \ {k}]
    /\ UNCHANGED <<disasters, alerts, risk, stamped, workers, cyc, dispatches, gen, env,
                   call, proc, response>>

\* A thread of the pool takes the oldest work item and calls
\* model.generate_content.
WorkerTakes ==
    /\ pool.queued # <<>>
    /\ SlotFree
    /\ pool' = [pool EXCEPT !.queued = Tail(@), !.running = @ \cup {Head(pool.queued)}]
    /\ UNCHANGED <<disasters, alerts, risk, stamped, workers, cyc, dispatches, gen, env,
                   call, proc, response>>

\* generate_content returns or raises; the thread is free, the caller
\* resumes (and may come back with its next attempt or its next job).
InvocationEnds(k) ==
    /\ k \in pool.running
    /\ pool' = [pool EXCEPT !.running = @ \ {k}, !.finished = @ \cup {k}]
    /\ UNCHANGED <<disasters, alerts, risk, stamped, workers, cyc, dispatches, gen, env,
                   call, proc, response>>

---------------------------------------------------------------------------
(* Recipient numbers (sms_service.py send_bulk_sms).  A number is the      *)
(* sequence of its characters.                                             *)

\* str.strip(): leading and trailing blanks removed.
RECURSIVE Strip(_)
Strip(n) ==
    IF n = <<>> THEN n
    ELSE IF Head(n) = " " THEN Strip(Tail(n))
    ELSE IF n[Len(n)] = " " THEN Strip(SubSeq(n, 1, Len(n) - 1))
    ELSE n

\* str.replace(" ", "").
RemoveSpaces(n) ==
    LET Kept(ch) == ch # " "
    IN  SelectSeq(n, Kept)

\* str.startswith(p).
StartsWith(n, p) == Len(n) >= Len(p) /\ SubSeq(n, 1, Len(p)) = p

\* The body of the loop over phone_numbers.
FormatNumber(num) ==
    LET n == RemoveSpaces(Strip(num))
    IN  IF StartsWith(n, <<"0", "7">>) \/ StartsWith(n, <<"0", "1">>)
           THEN <<"+", "2", "5", "4">> \o Tail(n)
        ELSE IF StartsWith(n, <<"2", "5", "4">>) /\ ~StartsWith(n, <<"+">>)
           THEN <<"+">> \o n
        ELSE n

\* Ways a caller writes the start of a number, and the rest of it.
NumberPrefixes ==
    {<<"0", "7">>, <<"0", "1">>, <<" ", "0", "7">>, <<"2", "5", "4", "7">>,
     <<"+", "2", "5", "4", "7">>, <<"+", "2", "5", "4", " ", "7">>, <<"7">>,
     <<"0", "2", "0">>, <<"0", "0", "2", "5", "4", "7">>}
NumberRests == {<<"2", "2">>, <<"1", " ", "2">>, <<"0", "7", " ">>, <<"5">>}
Numbers == {pre \o rest : pre \in NumberPrefixes, rest \in NumberRests}

\* send_bulk_sms up to the list it hands to the gateway.
CallSendBulk ==
    /\ call = NoCall
    /\ \E nums \in ListsOf(Numbers) :
         /\ nums # <<>>
         /\ call' = [fn |-> "send_bulk_sms", input |-> nums, raised |-> FALSE,
                     result |-> [n \in DOMAIN nums |-> FormatNumber(nums[n])]]
    /\ UNCHANGED <<disasters, alerts, risk, stamped, workers, cyc, dispatches, gen, env,
                   pool, proc, response>>

\* How a call of send_bulk_sms with recipients goes: no client (mock), the
\* gateway raises, it answers without a Recipients list, or it answers with
\* one status per recipient.
GatewayPaths == {"mock", "exception", "norecipients", "answered"}
Statuses == {"Success", "InvalidPhoneNumber"}

\* A count that reports every recipient as failed whatever was sent.
SendCountsAllFailed(n, path, statuses) ==
    LET sent == IF n = 0 \/ path \in {"exception", "norecipients"} THEN 0
                ELSE IF path = "mock" THEN n
                ELSE Cardinality({i \in DOMAIN statuses : statuses[i] = "Success"})
    IN  [sent |-> sent, failed |-> IF path = "mock" THEN 0 ELSE n]

\* The sent and failed of the dict send_bulk_sms returns for n numbers:
\* the early return, the mock return, "sent = sum(1 for r in Recipients if
\* r.get('status') == 'Success'); failed = len(formatted) - sent", and the
\* handler's "sent: 0, failed: len(formatted)".
SendCounts(n, path, statuses) ==
    IF n = 0 THEN [sent |-> 0, failed |-> 0]
    ELSE IF path = "mock" THEN [sent |-> n, failed |-> 0]
    ELSE IF path = "exception" THEN [sent |-> 0, failed |-> n]
    ELSE LET recipients == IF path = "norecipients" THEN <<>> ELSE statuses
             sent == Cardinality({i \in DOMAIN recipients : recipients[i] = "Success"})
         IN  [sent |-> sent, failed |-> n - sent]

\* send_bulk_sms as a whole: the list of numbers, and how the gateway did.
CallSendCount ==
    /\ call = NoCall
    /\ \E nums \in ListsOf(NumberPrefixes), path \in GatewayPaths :
         \E statuses \in [1..Len(nums) -> Statuses] :
            /\ path # "answered" => \A i \in DOMAIN statuses : statuses[i] = "Success"
            /\ call' = [fn |-> "send_bulk_sms", input |-> <<nums, path, statuses>>,
                        raised |-> FALSE,
                        result |-> SendCounts(Len(nums), path, statuses)]
    /\ UNCHANGED <<disasters, alerts, risk, stamped, workers, cyc, dispatches, gen, env,
                   pool, proc, response>>

\* The caller has taken the result; the next call can be made.
CallReturned ==
    /\ call # NoCall
    /\ call' = NoCall
    /\ UNCHANGED <<disasters, alerts, risk, stamped, workers, cyc, dispatches, gen, env,
                   pool, proc, response>>

---------------------------------------------------------------------------
(* Process start (main.py lifespan, scheduler.py start_scheduler). *)

\* Whether the thread that calls _run_async is running an event loop: the
\* lifespan hook is a coroutine on the server's loop; the scheduler calls
\* _job on a thread of its pool.
RunningLoop(thread) == thread = "server"

\* _run_async: loop.run_until_complete refuses to run while another loop is
\* running in the thread ("Cannot run the event loop while another loop is
\* running"); the finally clause closes the new loop either way.
run_async(thread) == IF RunningLoop(thread) THEN "RuntimeError" ELSE "runs"

\* The process before lifespan has run, and after: the job is registered and
\* the scheduler started before _job() is called, and lifespan catches what
\* start_scheduler raises.
StartingProc == [phase |-> "starting", timer |-> FALSE, startup |-> "none", inflight |-> {}]
ServingProc ==
    [phase |-> "serving", timer |-> TRUE,
     startup |-> IF run_async("server") = "runs" THEN "ran" ELSE "failed",
     inflight |-> {}]

\* lifespan up to its yield: init_db, start_scheduler.  Run 1 stands for the
\* cycle _job() makes at startup.
start_scheduler ==
    /\ proc.phase = "starting"
    /\ proc' = ServingProc
    /\ IF run_async("server") = "runs"
       THEN cyc' = [cyc EXCEPT ![1] = [IdleCycle EXCEPT !.pc = "counties", !.i = 1]]
       ELSE cyc' = cyc
    /\ UNCHANGED <<disasters, alerts, risk, stamped, workers, dispatches, gen, env, call, pool, response>>

\* A scheduler that goes on firing the job whatever the process does.
TimerJobUnstopped(c) ==
    /\ run_async("pool") = "runs"
    /\ StartCycleAlone(c)

\* A tick of the interval trigger: _job on a pool thread.
TimerJob(c) ==
    /\ proc.phase = "serving"
    /\ proc.timer
    /\ run_async("pool") = "runs"
    /\ StartCycleAlone(c)

\* The runs of the job that have not returned.
InFlight == {c \in Cycles : cyc[c].pc # "idle"}

\* lifespan after its yield calls stop_scheduler: the scheduler is running,
\* so shutdown() is called; it stops the trigger and, its wait argument
\* left at True, waits for the job that is executing.
stop_scheduler ==
    /\ proc.phase = "serving"
    /\ proc' = [proc EXCEPT !.phase = "stopping", !.timer = FALSE, !.inflight = InFlight]
    /\ UNCHANGED <<disasters, alerts, risk, stamped, workers, cyc, dispatches, gen, env,
                   call, pool, response>>

\* shutdown() returns once no run is executing; stop_scheduler and lifespan
\* return.
shutdown_returns ==
    /\ proc.phase = "stopping"
    /\ InFlight = {}
    /\ proc' = [proc EXCEPT !.phase = "stopped"]
    /\ UNCHANGED <<disasters, alerts, risk, stamped, workers, cyc, dispatches, gen, env,
                   call, pool, response>>

\* The process is killed while shutdown() waits: the run's thread and all
\* it held in memory are gone, the database file stays as the last
\* committed statement left it.
ProcessKilled ==
    /\ proc.phase = "stopping"
    /\ InFlight # {}
    /\ proc' = [proc EXCEPT !.phase = "dead"]
    /\ cyc' = [c \in Cycles |-> IdleCycle]
    /\ UNCHANGED <<disasters, alerts, risk, stamped, workers, dispatches, gen, env,
                   call, pool, response>>

---------------------------------------------------------------------------
(* Request handlers that write incidents (main.py). *)

\* A response: the handler, the status code, and the ids the request named
\* (0 where the request names none).
Response(handler, status, worker_id, disaster_id) ==
    [handler |-> handler, status |-> status,
     worker_id |-> worker_id, disaster_id |-> disaster_id]
NoResponse == Response("none", 0, 0, 0)

\* A report handler that also marks the county of the report as at risk.
submit_report_rescoring(r) ==
    /\ Len(disasters) < MaxDisasters
    /\ disasters' = Append(disasters, DisasterRow(ReportData(r)))
    /\ response' = Response("submit_report", 200, 0, Len(disasters) + 1)
    /\ risk' = [c \in DOMAIN risk |-> IF c \in r.county_id THEN MaxScore ELSE risk[c]]
    /\ UNCHANGED <<alerts, stamped, workers, cyc, dispatches, gen, env, call, pool, proc>>

\* POST /report
submit_report(r) ==
    /\ Len(disasters) < MaxDisasters
    /\ disasters' = Append(disasters, DisasterRow(ReportData(r)))
    /\ response' = Response("submit_report", 200, 0, Len(disasters) + 1)
    /\ UNCHANGED <<alerts, risk, stamped, workers, cyc, dispatches, gen, env, call, pool, proc>>

\* A resolve that removes the row instead of marking it.
resolve_disaster_purging(id) ==
    /\ disasters' =
         IF id \in DOMAIN disasters
         THEN [n \in 1..(Len(disasters) - 1) |->
                  IF n < id THEN disasters[n] ELSE disasters[n + 1]]
         ELSE disasters
    /\ response' = Response("resolve_disaster", 200, 0, id)
    /\ UNCHANGED <<alerts, risk, stamped, workers, cyc, dispatches, gen, env, call, pool, proc>>

\* PATCH /disasters/{id}/resolve: an UPDATE that matches the row, or nothing.
resolve_disaster(id) ==
    /\ disasters' =
         IF id \in DOMAIN disasters
         THEN [disasters EXCEPT ![id].status = ResolvedStatus(@)]
         ELSE disasters
    /\ response' = Response("resolve_disaster", 200, 0, id)
    /\ UNCHANGED <<alerts, risk, stamped, workers, cyc, dispatches, gen, env, call, pool, proc>>

\* The dispatch handler with the incident lookup left out.
DispatchFoundWorker(w, d) == w \in WorkerIds

\* The two lookups of dispatch: "if not worker", "if not disaster".
DispatchFound(w, d) == w \in WorkerIds /\ d \in DOMAIN disasters

\* POST /dispatch: 404 unless the worker and the incident both exist.
dispatch(w, d) ==
    /\ IF DispatchFound(w, d)
       THEN /\ workers' = [workers EXCEPT
                             ![w] = [status |-> "deployed", current_disaster_id |-> {d}]]
            /\ response' = Response("dispatch", 200, w, d)
       ELSE /\ workers' = workers
            /\ response' = Response("dispatch", 404, w, d)
    /\ UNCHANGED <<disasters, alerts, risk, stamped, cyc, dispatches, gen, env, call, pool, proc>>

---------------------------------------------------------------------------
(* Job 3: SMS alert text (gemini_service.py).  A message is its language   *)
(* and its length.                                                         *)

Msg(lang, len) == [lang |-> lang, len |-> len]

TypeLen(type) ==
    IF type = "Earthquake" THEN 10 ELSE IF type = "Wildfire" THEN 8 ELSE 5
CountyNameLen(c) == IF c = 1 THEN 7 ELSE 5

\* disaster.get("county_name") or disaster.get("location"): the name joined
\* through the incident's own county_id, else the location text.
AlertPlaceLen(row) ==
    IF row.county_id # Null
    THEN CountyNameLen(CHOOSE c \in row.county_id : TRUE)
    ELSE row.location

\* _fallback_sms: the two templates have 76 and 63 characters around the
\* incident type and the place.
fallback_sms(row) ==
    [english |-> Msg("en", 76 + TypeLen(row.type) + AlertPlaceLen(row)),
     swahili |-> Msg("sw", 63 + TypeLen(row.type) + AlertPlaceLen(row))]

\* if len(result.get(lang, "")) > 160: result[lang] = result[lang][:157] + "..."
CapSms(len) == IF len > SmsCap THEN SmsKeep + EllipsisLen ELSE len

\* Answers of the model to the SMS prompt, as generate_sms_alert sees them:
\* raise, malformed, or JSON with the two texts (given by their lengths).
SmsRaise == [kind |-> "raise", english |-> 0, swahili |-> 0]
SmsReplies ==
    {SmsRaise,
     [kind |-> "malformed", english |-> 0, swahili |-> 0],
     [kind |-> "json", english |-> 90, swahili |-> 160],
     [kind |-> "json", english |-> 161, swahili |-> 300]}

\* JSON answers that are an object with one of the two keys only.
SmsRepliesOneKey ==
    {[kind |-> "json_no_swahili", english |-> 90, swahili |-> 0],
     [kind |-> "json_no_english", english |-> 0, swahili |-> 120]}

\* A key the dict does not have.
NoText == Msg("none", 0)

\* generate_sms_alert: the parsed object with each text it has capped
\* (result.get(lang, "") passes over a missing key), or the fallback.
generate_sms_alert(row, reply) ==
    IF reply.kind = "json"
    THEN [english |-> Msg("en", CapSms(reply.english)),
          swahili |-> Msg("sw", CapSms(reply.swahili))]
    ELSE IF reply.kind = "json_no_swahili"
    THEN [english |-> Msg("en", CapSms(reply.english)), swahili |-> NoText]
    ELSE IF reply.kind = "json_no_english"
    THEN [english |-> NoText, swahili |-> Msg("sw", CapSms(reply.swahili))]
    ELSE fallback_sms(row)

\* Answers of the model to the prediction prompt: raise, malformed, or a
\* JSON array of n threats.
PredictionReplies ==
    {[kind |-> "raise", threats |-> 0], [kind |-> "malformed", threats |-> 0],
     [kind |-> "json", threats |-> 0], [kind |-> "json", threats |-> 2]}

\* generate_72hr_prediction: "return _extract_json(text)", or [] from the
\* handler.
generate_72hr_prediction(reply) ==
    IF reply.kind = "json"
    THEN [n \in 1..reply.threats |-> [county |-> n, threat |-> "Flood"]]
    ELSE <<>>

---------------------------------------------------------------------------
(* sms_service.py *)

\* What send_bulk_sms reports for n formatted numbers, by what the gateway
\* did: no key (mock), every send a success, one send refused, an exception.
GatewayOutcomes == {"mock", "delivered", "partial", "exception"}

send_bulk_sms(phones, outcome) ==
    LET n == Len(phones)
    IN  IF n = 0 THEN [sent |-> 0, failed |-> 0]
        ELSE IF outcome \in {"mock", "delivered"} THEN [sent |-> n, failed |-> 0]
        ELSE IF outcome = "partial" THEN [sent |-> n - 1, failed |-> 1]
        ELSE [sent |-> 0, failed |-> n]

---------------------------------------------------------------------------
(* POST /alert/send (main.py). *)

\* req.county_id or disaster.get("county_id")
TargetCounty(override, row) == IF override # Null THEN override ELSE row.county_id

\* SELECT phone FROM workers WHERE county_id=?  and the filter on w["phone"].
WorkerPhones(county) ==
    LET ids == {w \in WorkerIds :
                   /\ county # Null
                   /\ WorkerSeed[w].county_id = county
                   /\ WorkerSeed[w].phone # ""}
        Ordered[S \in SUBSET WorkerIds] ==
            IF S = {} THEN <<>>
            ELSE LET w == CHOOSE x \in S : \A y \in S : x <= y
                 IN  <<WorkerSeed[w].phone>> \o Ordered[S \ {w}]
    IN  Ordered[ids]

\* Whether send_bulk_sms reaches sms.send: there are recipients and a client.
Submits(phones, outcome) == phones # <<>> /\ outcome # "mock"

\* A handler that hands the Swahili text to _send.
SendArgumentSwahili(text) == text.swahili

\* background_tasks.add_task(_send, phones, sms_text["english"])
SendArgument(text) == text.english

\* sms_text["english"] or sms_text["swahili"] raises KeyError.
KeyMissing(text) == text.english = NoText \/ text.swahili = NoText

\* The handler up to its return: the text is generated, the recipients are
\* resolved, _send is queued, the response goes out with the two texts
\* (message_en, message_sw).  An unknown incident id ends in
\* HTTPException(404) before any of it; a text without one of its keys ends
\* in a KeyError, and the tasks of a request that raised are not run.
send_alert(d, override) ==
    /\ Len(dispatches) < MaxAlerts
    /\ IF d \in DOMAIN disasters
       THEN \E reply \in env.smsReplies :
              LET row == disasters[d]
                  text == generate_sms_alert(row, reply)
                  phones == WorkerPhones(TargetCounty(override, row))
              IN  IF KeyMissing(text)
                  THEN /\ dispatches' = dispatches
                       /\ response' = Response("send_alert", 500, 0, d)
                  ELSE /\ dispatches' = Append(dispatches,
                             [disaster_id |-> d, english |-> text.english,
                              swahili |-> text.swahili, phones |-> phones,
                              message |-> SendArgument(text),
                              message_en |-> text.english,
                              message_sw |-> text.swahili,
                              submitted |-> {},
                              recipients |-> Len(phones),
                              phase |-> "queued", sent |-> 0, alert_id |-> 0,
                              log |-> <<"text", "response">>])
                       /\ response' = Response("send_alert", 200, 0, d)
       ELSE /\ dispatches' = dispatches
            /\ response' = Response("send_alert", 404, 0, d)
    /\ UNCHANGED <<disasters, alerts, risk, stamped, workers, cyc, gen, env, call, pool, proc>>

\* What sms.send was given: the message of the call, if the call got there.
Submitted(t, outcome) == IF Submits(t.phones, outcome) THEN {t.message} ELSE {}

\* Whether _send goes on to insert_alert: "if phones:".
SendRecords(phones) == phones # <<>>

\* What _send adds to the events of a dispatch.
SendEvents(phones, outcome) ==
    (IF Submits(phones, outcome) THEN <<"gateway">> ELSE <<>>)
        \o (IF SendRecords(phones) THEN <<"record">> ELSE <<>>)

\* A table that keeps one alert per incident, the latest.
insert_alert_upsert(rows, row) ==
    IF \E i \in DOMAIN rows : rows[i].disaster_id = row.disaster_id
    THEN [i \in DOMAIN rows |-> IF rows[i].disaster_id = row.disaster_id THEN row ELSE rows[i]]
    ELSE Append(rows, row)

\* insert_alert: INSERT INTO alerts, the id assigned by the table.
insert_alert(rows, row) == Append(rows, row)

\* The row _send writes for dispatch t.
AlertRow(t, sent) ==
    [disaster_id |-> t.disaster_id, message_en |-> t.english,
     message_sw |-> t.swahili, recipients_count |-> sent]

\* The background task _send(phones, message) of dispatch n.
run_send(n) ==
    /\ n \in DOMAIN dispatches
    /\ dispatches[n].phase = "queued"
    /\ \E outcome \in env.gateway :
         LET t == dispatches[n]
             result == send_bulk_sms(t.phones, outcome)
         IN  IF SendRecords(t.phones)
             THEN /\ Len(alerts) < MaxAlerts
                  /\ alerts' = insert_alert(alerts, AlertRow(t, result.sent))
                  /\ dispatches' = [dispatches EXCEPT
                        ![n].phase = "done", ![n].sent = result.sent,
                        ![n].alert_id = Len(alerts) + 1,
                        ![n].submitted = Submitted(t, outcome),
                        ![n].log = @ \o SendEvents(t.phones, outcome)]
             ELSE /\ alerts' = alerts
                  /\ dispatches' = [dispatches EXCEPT
                        ![n].phase = "done", ![n].sent = result.sent,
                        ![n].submitted = Submitted(t, outcome),
                        ![n].log = @ \o SendEvents(t.phones, outcome)]
    /\ UNCHANGED <<disasters, risk, stamped, workers, cyc, gen, env, call, pool, proc, response>>

\* _send in its two awaits, for dispatches that run side by side: first
\* "result = await send_bulk_sms(phones, message)" ...
send_submit(n) ==
    /\ n \in DOMAIN dispatches
    /\ dispatches[n].phase = "queued"
    /\ \E outcome \in env.gateway :
         LET t == dispatches[n]
             result == send_bulk_sms(t.phones, outcome)
         IN  dispatches' = [dispatches EXCEPT
                 ![n].phase = "submitted", ![n].sent = result.sent,
                 ![n].submitted = Submitted(t, outcome),
                 ![n].log = @ \o (IF Submits(t.phones, outcome) THEN <<"gateway">> ELSE <<>>)]
    /\ UNCHANGED <<disasters, alerts, risk, stamped, workers, cyc, gen, env, call, pool,
                   proc, response>>

\* ... then "if phones: await insert_alert(...)".
send_record(n) ==
    /\ n \in DOMAIN dispatches
    /\ dispatches[n].phase = "submitted"
    /\ LET t == dispatches[n]
       IN  IF SendRecords(t.phones)
           THEN /\ alerts' = insert_alert(alerts, AlertRow(t, t.sent))
                /\ dispatches' = [dispatches EXCEPT
                      ![n].phase = "done", ![n].alert_id = Len(alerts) + 1,
                      ![n].log = @ \o <<"record">>]
           ELSE /\ alerts' = alerts
                /\ dispatches' = [dispatches EXCEPT ![n].phase = "done"]
    /\ UNCHANGED <<disasters, risk, stamped, workers, cyc, gen, env, call, pool, proc, response>>

---------------------------------------------------------------------------
(* The three jobs that parse what the model returned, called on their own  *)
(* (gemini_service.py).                                                    *)

\* Readings and draws of random.randint(0, 15) the scorer is called with.
JobReadings ==
    {CalmReading, [rainfall_mm |-> 45, temp_c |-> 25], [rainfall_mm |-> 0, temp_c |-> 38],
     [rainfall_mm |-> 12, temp_c |-> 34], [rainfall_mm |-> 21, temp_c |-> 30]}
JobJitters == {0, 7, MaxJitter}

CallScore ==
    /\ call = NoCall
    /\ \E w \in JobReadings, reply \in RiskReplies, jitter \in JobJitters :
         call' = [fn |-> "score_county_risk", input |-> <<w, jitter, reply>>,
                  raised |-> FALSE, result |-> score_county_risk(w, reply, jitter)]
    /\ UNCHANGED <<disasters, alerts, risk, stamped, workers, cyc, dispatches, gen, env,
                   pool, proc, response>>

CallSms ==
    /\ call = NoCall
    /\ \E r \in {ReportShort, ReportLong}, reply \in SmsReplies :
         call' = [fn |-> "generate_sms_alert", input |-> <<r, 0, reply>>,
                  raised |-> FALSE,
                  result |-> generate_sms_alert(DisasterRow(ReportData(r)), reply)]
    /\ UNCHANGED <<disasters, alerts, risk, stamped, workers, cyc, dispatches, gen, env,
                   pool, proc, response>>

CallPrediction ==
    /\ call = NoCall
    /\ \E reply \in PredictionReplies :
         call' = [fn |-> "generate_72hr_prediction", input |-> <<0, 0, reply>>,
                  raised |-> FALSE, result |-> generate_72hr_prediction(reply)]
    /\ UNCHANGED <<disasters, alerts, risk, stamped, workers, cyc, dispatches, gen, env,
                   pool, proc, response>>

---------------------------------------------------------------------------
(* _generate (gemini_service.py): the retry loop around the model call.    *)
(* An error is what it is (a capacity / rate-limit error or not) and which *)
(* of the three markers its text contains.                                 *)

\* "429 Resource has been exhausted (e.g. check quota)."
ErrRateLimit == [capacity |-> TRUE, text |-> {"429", "quota"}]
\* "Quota exceeded for quota metric ..."
ErrQuota == [capacity |-> TRUE, text |-> {"quota"}]
\* "400 API key not valid. Please pass a valid API key."
ErrAuth == [capacity |-> FALSE, text |-> {}]
\* "404 models/... is not found for API version v1beta, or is not supported
\* for generateContent.": the text contains "rate" inside "generateContent".
ErrNotFound == [capacity |-> FALSE, text |-> {"rate"}]

ModelErrors == {ErrRateLimit, ErrQuota, ErrAuth, ErrNotFound}
ModelOutcomes == {[ok |-> TRUE, err |-> ErrAuth]} \cup [ok : {FALSE}, err : ModelErrors]

\* if "429" in str(e) or "quota" in str(e).lower() or "rate" in str(e).lower()
Retriable(e) == "429" \in e.text \/ "quota" \in e.text \/ "rate" \in e.text

\* wait_times = [5, 15, 30]
wait_times == <<5, 15, 30>>

\* Whether the loop goes round again after the sleep of attempt a (counted
\* from 0): for attempt in range(3).
LoopContinues(a) == a + 1 < GenAttempts

\* job and result belong to the caller: which job awaits the call, and how
\* the job ended.
IdleGen ==
    [pc |-> "idle", attempt |-> 0, calls |-> 0, waits |-> <<>>, errs |-> <<>>,
     job |-> "none", result |-> "none"]

\* A job calls _generate: _init_model, then the loop is entered.
GenCall ==
    /\ gen.pc = "idle"
    /\ gen' = [gen EXCEPT !.pc = IF env.configured THEN "attempt" ELSE "raised"]
    /\ UNCHANGED <<disasters, alerts, risk, stamped, workers, cyc, dispatches, env, call, pool, proc, response>>

\* One run of the loop body: the model is invoked in the executor; the
\* answer is returned, or the error is classified.
GenInvoke ==
    /\ gen.pc = "attempt"
    /\ \E o \in env.modelOutcomes :
         IF o.ok
         THEN gen' = [gen EXCEPT !.pc = "returned", !.calls = @ + 1]
         ELSE IF Retriable(o.err)
         THEN gen' = [gen EXCEPT !.pc = "sleeping", !.calls = @ + 1,
                                 !.errs = Append(@, o.err),
                                 !.waits = Append(@, wait_times[gen.attempt + 1])]
         ELSE gen' = [gen EXCEPT !.pc = "raised", !.calls = @ + 1,
                                 !.errs = Append(@, o.err)]
    /\ UNCHANGED <<disasters, alerts, risk, stamped, workers, cyc, dispatches, env, call, pool, proc, response>>

\* asyncio.sleep(wait) returns: the next iteration, or "raise last_ex".
GenWake ==
    /\ gen.pc = "sleeping"
    /\ gen' = [gen EXCEPT !.attempt = @ + 1,
                          !.pc = IF LoopContinues(gen.attempt) THEN "attempt" ELSE "raised"]
    /\ UNCHANGED <<disasters, alerts, risk, stamped, workers, cyc, dispatches, env, call, pool, proc, response>>

\* The call is over; the next one starts afresh.
GenDone ==
    /\ gen.pc \in {"returned", "raised"}
    /\ gen' = IdleGen
    /\ UNCHANGED <<disasters, alerts, risk, stamped, workers, cyc, dispatches, env, call, pool, proc, response>>

---------------------------------------------------------------------------
(* The five jobs around _generate (gemini_service.py).  Each has the shape *)
(*     try: ... text = await _generate(prompt); <use text>                 *)
(*     except Exception as e: return <fallback>                            *)
(* What the job does with the text decides which texts make the body       *)
(* raise.                                                                  *)

Jobs ==
    {"score_county_risk", "generate_72hr_prediction", "generate_sms_alert",
     "generate_national_report", "get_admin_chat_response"}

\* What _extract_json makes of a text the model returned:
\*   malformed   json.loads raises
\*   nonobject   JSON, but no object (a list, a string, a number)
\*   nonnumeric  an object whose risk_score int() rejects
\*   json        an object of the shape the prompt asked for
Parses == {"malformed", "nonobject", "nonnumeric", "json"}

\* Whether the try body of job raises, _generate having raised or returned
\* a text that parses as parsed.
BodyRaises(job, generated, parsed) ==
    \/ ~generated
    \/ /\ job = "score_county_risk"
       /\ parsed \in {"malformed", "nonobject", "nonnumeric"}
    \/ /\ job = "generate_72hr_prediction"
       /\ parsed = "malformed"
    \/ /\ job = "generate_sms_alert"
       /\ parsed \in {"malformed", "nonobject"}

\* A job whose handler lets the exception through.
ExceptNothing(raises) == IF raises THEN "raised" ELSE "value"

\* "except Exception as e: ... return <fallback>"
ExceptException(raises) == IF raises THEN "fallback" ELSE "value"

\* A job is called: it enters its try block and awaits _generate.
JobCall(j) ==
    /\ gen.pc = "idle"
    /\ gen' = [gen EXCEPT !.job = j,
                          !.pc = IF env.configured THEN "attempt" ELSE "raised"]
    /\ UNCHANGED <<disasters, alerts, risk, stamped, workers, cyc, dispatches, env, call, pool, proc, response>>

\* _generate is over; the job uses the text, or its handler runs.
JobReturn ==
    /\ gen.pc \in {"returned", "raised"}
    /\ gen.job \in Jobs
    /\ \E parsed \in env.parses :
         gen' = [gen EXCEPT
                   !.pc = "job_over",
                   !.result = ExceptException(
                                  BodyRaises(gen.job, gen.pc = "returned", parsed))]
    /\ UNCHANGED <<disasters, alerts, risk, stamped, workers, cyc, dispatches, env, call, pool, proc, response>>

\* The caller has the job's answer.
JobOver ==
    /\ gen.pc = "job_over"
    /\ gen' = IdleGen
    /\ UNCHANGED <<disasters, alerts, risk, stamped, workers, cyc, dispatches, env, call, pool, proc, response>>

---------------------------------------------------------------------------
(* Initial states.  The tables are as init_db and the seed leave them; env *)
(* fixes what the external services may answer during a run.               *)

QuietEnv ==
    [weatherFails |-> {TRUE},
     readings |-> {CalmReading},
     mocks |-> {CalmReading},
     writes |-> {"ok"},
     quakeFails |-> {FALSE},
     fireFails |-> {FALSE},
     riskReplies |-> {[kind |-> "raise", score |-> 0]},
     jitter |-> {0},
     quakeFeeds |-> {<<>>},
     fireBatches |-> {NoFires},
     reports |-> {ReportShort},
     smsReplies |-> {SmsRaise},
     gateway |-> {"mock"},
     modelOutcomes |-> ModelOutcomes,
     configured |-> TRUE,
     parses |-> Parses]

InitTables ==
    /\ disasters = <<>>
    /\ alerts = <<>>
    /\ risk = [c \in Counties |-> 0]
    /\ stamped = [c \in Counties |-> FALSE]
    /\ workers = [w \in WorkerIds |-> [status |-> "available", current_disaster_id |-> Null]]
    /\ cyc = [c \in Cycles |-> IdleCycle]
    /\ dispatches = <<>>
    /\ gen = IdleGen
    /\ response = NoResponse
    /\ call = NoCall
    /\ pool = IdlePool

\* The feeds the registration rules are exercised with.
QuakeFeeds ==
    {<<>>,
     <<QuakeReading(QuakeE1)>>,
     <<QuakeReading(QuakeE3), QuakeReading(QuakeE2)>>,
     <<QuakeReading(QuakeE4), QuakeReading(QuakeE1)>>}
FireSizes == {0, 5, 6, 8, 20, 21, 25}
FireBatches == {FireBatch(n, 3100, 35600) : n \in FireSizes}

\* Every handler that writes, around runs of the cycle that do not overlap
\* (one slot serves for them all).  The requests name incident 1 and worker 1.
Init ==
    /\ InitTables
    /\ proc = ServingProc
    /\ env = [QuietEnv EXCEPT
                !.mocks = {[rainfall_mm |-> 10, temp_c |-> 25]},
                !.quakeFeeds = {<<QuakeReading(QuakeE2)>>},
                !.fireBatches = {FireBatch(8, 3100, 35600)}]

Next ==
    \/ StartCycleAlone(1)
    \/ \E c \in Cycles : ScoreCounty(c)
    \/ \E c \in Cycles : FetchQuakes(c)
    \/ \E c \in Cycles : QuakeCheck(c)
    \/ \E c \in Cycles : QuakeInsert(c)
    \/ \E c \in Cycles : FetchFires(c)
    \/ \E c \in Cycles : FireCheck(c)
    \/ \E c \in Cycles : FireInsert(c)
    \/ \E c \in Cycles : EndCycle(c)
    \/ \E r \in env.reports : submit_report(r)
    \/ \E id \in 1..MaxDisasters : resolve_disaster(id)
    \/ dispatch(1, 1)
    \/ send_alert(1, Null)
    \/ \E n \in 1..MaxAlerts : run_send(n)

Spec == Init /\ [][Next]_vars

\* Runs of the cycle that overlap, with reports and resolutions in between.
NextOverlap ==
    \/ \E c \in Cycles : StartCycle(c)
    \/ \E c \in Cycles : ScoreCounty(c)
    \/ \E c \in Cycles : FetchQuakes(c)
    \/ \E c \in Cycles : QuakeCheck(c)
    \/ \E c \in Cycles : QuakeInsert(c)
    \/ \E c \in Cycles : FetchFires(c)
    \/ \E c \in Cycles : FireCheck(c)
    \/ \E c \in Cycles : FireInsert(c)
    \/ \E c \in Cycles : EndCycle(c)
    \/ \E r \in env.reports : submit_report(r)
    \/ \E id \in 1..MaxDisasters : resolve_disaster(id)

SpecOverlap == Init /\ [][NextOverlap]_vars

\* Runs that never overlap (one slot serves for them all), the feeds in full.
InitSeq ==
    /\ InitTables
    /\ proc = ServingProc
    /\ env = [QuietEnv EXCEPT
                !.quakeFeeds = QuakeFeeds,
                !.fireBatches = FireBatches]

NextSeq ==
    \/ StartCycleAlone(1)
    \/ \E c \in Cycles : ScoreCounty(c)
    \/ \E c \in Cycles : FetchQuakes(c)
    \/ \E c \in Cycles : QuakeCheck(c)
    \/ \E c \in Cycles : QuakeInsert(c)
    \/ \E c \in Cycles : FetchFires(c)
    \/ \E c \in Cycles : FireCheck(c)
    \/ \E c \in Cycles : FireInsert(c)
    \/ \E c \in Cycles : EndCycle(c)
    \/ \E id \in 1..MaxDisasters : resolve_disaster(id)

SpecSeq == InitSeq /\ [][NextSeq]_vars

\* The scoring job under every reading and every answer of the model.
InitRisk ==
    /\ InitTables
    /\ proc = ServingProc
    /\ env = [QuietEnv EXCEPT
                !.weatherFails = {FALSE},
                !.readings = WeatherReadings,
                !.riskReplies = RiskReplies,
                !.jitter = {0, MaxJitter}]

NextRisk ==
    \/ \E c \in Cycles : StartCycleAlone(c)
    \/ \E c \in Cycles : ScoreCounty(c)
    \/ \E c \in Cycles : FetchQuakes(c)
    \/ \E c \in Cycles : FetchFires(c)
    \/ \E c \in Cycles : EndCycle(c)

SpecRisk == InitRisk /\ [][NextRisk]_vars

\* Alert dispatch under every answer of the model and of the gateway, on
\* the table two reports leave: incident 1 in county 1, incident 2 with no
\* county and a long location text.  Id 3 names no incident.
InitAlert ==
    /\ disasters = <<DisasterRow(ReportData(ReportShort)),
                     DisasterRow(ReportData(ReportLong))>>
    /\ alerts = <<>>
    /\ risk = [c \in Counties |-> 0]
    /\ stamped = [c \in Counties |-> FALSE]
    /\ workers = [w \in WorkerIds |-> [status |-> "available", current_disaster_id |-> Null]]
    /\ cyc = [c \in Cycles |-> IdleCycle]
    /\ dispatches = <<>>
    /\ gen = IdleGen
    /\ proc = ServingProc
    /\ response = NoResponse
    /\ call = NoCall
    /\ pool = IdlePool
    /\ env = [QuietEnv EXCEPT
                !.smsReplies = SmsReplies,
                !.gateway = GatewayOutcomes]

NextAlert ==
    \/ \E d \in {1, 2, 3}, o \in {Null, {1}, {2}} : send_alert(d, o)
    \/ \E n \in 1..MaxAlerts : run_send(n)

SpecAlert == InitAlert /\ [][NextAlert]_vars

\* Dispatches that run side by side, each _send in its two awaits.
NextDispatch ==
    \/ \E d \in {1, 3}, o \in {Null, {1}, {2}} : send_alert(d, o)
    \/ \E n \in 1..MaxAlerts : send_submit(n)
    \/ \E n \in 1..MaxAlerts : send_record(n)

SpecDispatch == InitAlert /\ [][NextDispatch]_vars

\* Dispatches under answers of the model that may lack a key.
InitBodies ==
    /\ disasters = <<DisasterRow(ReportData(ReportShort)),
                     DisasterRow(ReportData(ReportLong))>>
    /\ alerts = <<>>
    /\ risk = [c \in Counties |-> 0]
    /\ stamped = [c \in Counties |-> FALSE]
    /\ workers = [w \in WorkerIds |-> [status |-> "available", current_disaster_id |-> Null]]
    /\ cyc = [c \in Cycles |-> IdleCycle]
    /\ dispatches = <<>>
    /\ gen = IdleGen
    /\ proc = ServingProc
    /\ response = NoResponse
    /\ call = NoCall
    /\ pool = IdlePool
    /\ env = [QuietEnv EXCEPT
                !.smsReplies = SmsReplies \cup SmsRepliesOneKey,
                !.gateway = GatewayOutcomes]

SpecBodies == InitBodies /\ [][NextDispatch]_vars

\* One caller of _generate after another, the key configured or not.
InitGen ==
    /\ InitTables
    /\ proc = ServingProc
    /\ \E k \in BOOLEAN : env = [QuietEnv EXCEPT !.configured = k]

NextGen == GenCall \/ GenInvoke \/ GenWake \/ GenDone

SpecGen == InitGen /\ [][NextGen]_vars

\* The cycle under failing sources and failing writes: every fetch may fail,
\* the model may fail, every write may raise.  LongFeed has a registrable
\* event behind five that are too weak.
LongFeed ==
    <<QuakeReading(QuakeE3), QuakeReading(QuakeE3), QuakeReading(QuakeE3),
      QuakeReading(QuakeE3), QuakeReading(QuakeE3), QuakeReading(QuakeE2)>>

InitPipeline ==
    /\ InitTables
    /\ proc = ServingProc
    /\ env = [QuietEnv EXCEPT
                !.weatherFails = BOOLEAN,
                !.riskReplies = {[kind |-> "raise", score |-> 0],
                                 [kind |-> "json", score |-> 55]},
                !.writes = {"ok", "error"},
                !.quakeFails = BOOLEAN,
                !.quakeFeeds = {<<QuakeReading(QuakeE4)>>, LongFeed},
                !.fireFails = BOOLEAN,
                !.fireBatches = {FireBatch(8, 3100, 35600)}]

NextPipeline ==
    \/ \E c \in Cycles : StartCycleAlone(c)
    \/ \E c \in Cycles : ScoreCounty(c)
    \/ \E c \in Cycles : FetchQuakes(c)
    \/ \E c \in Cycles : QuakeCheck(c)
    \/ \E c \in Cycles : QuakeInsert(c)
    \/ \E c \in Cycles : FetchFires(c)
    \/ \E c \in Cycles : FireCheck(c)
    \/ \E c \in Cycles : FireInsert(c)
    \/ \E c \in Cycles : EndCycle(c)
    \/ \E c \in Cycles : AbortCycle(c)

SpecPipeline == InitPipeline /\ [][NextPipeline]_vars

\* The process from its start: lifespan, then the ticks of the interval
\* trigger, with resolutions in between.
InitStart ==
    /\ InitTables
    /\ proc = StartingProc
    /\ env = [QuietEnv EXCEPT
                !.quakeFeeds = {<<QuakeReading(QuakeE2)>>, <<QuakeReading(QuakeE4)>>},
                !.fireBatches = {FireBatch(8, 3100, 35600), FireBatch(25, 3100, 35600)}]

NextStart ==
    \/ start_scheduler
    \/ \E c \in Cycles : TimerJob(c)
    \/ \E c \in Cycles : ScoreCounty(c)
    \/ \E c \in Cycles : FetchQuakes(c)
    \/ \E c \in Cycles : QuakeCheck(c)
    \/ \E c \in Cycles : QuakeInsert(c)
    \/ \E c \in Cycles : FetchFires(c)
    \/ \E c \in Cycles : FireCheck(c)
    \/ \E c \in Cycles : FireInsert(c)
    \/ \E c \in Cycles : EndCycle(c)
    \/ \E id \in 1..MaxDisasters : resolve_disaster(id)

SpecStart == InitStart /\ [][NextStart]_vars

\* The process from serving to its end: ticks of the trigger, the steps of
\* the runs, then the shutdown.
InitStop ==
    /\ InitTables
    /\ proc = ServingProc
    /\ env = [QuietEnv EXCEPT
                !.weatherFails = BOOLEAN,
                !.readings = {CalmReading, [rainfall_mm |-> 45, temp_c |-> 25]},
                !.riskReplies = {[kind |-> "raise", score |-> 0],
                                 [kind |-> "json", score |-> 55]},
                !.quakeFeeds = {<<QuakeReading(QuakeE2)>>, <<QuakeReading(QuakeE4)>>},
                !.fireBatches = {FireBatch(8, 3100, 35600)}]

NextStop ==
    \/ \E c \in Cycles : TimerJob(c)
    \/ \E c \in Cycles : ScoreCounty(c)
    \/ \E c \in Cycles : FetchQuakes(c)
    \/ \E c \in Cycles : QuakeCheck(c)
    \/ \E c \in Cycles : QuakeInsert(c)
    \/ \E c \in Cycles : FetchFires(c)
    \/ \E c \in Cycles : FireCheck(c)
    \/ \E c \in Cycles : FireInsert(c)
    \/ \E c \in Cycles : EndCycle(c)
    \/ stop_scheduler
    \/ shutdown_returns
    \/ ProcessKilled

SpecStop == InitStop /\ [][NextStop]_vars

\* Requests that name rows, on the table of InitAlert: incidents 1 and 2
\* exist, the other ids up to MaxDisasters do not; workers 1 and 2 exist,
\* worker 3 does not.
RequestWorkers == WorkerIds \cup {3}

InitRequests ==
    /\ disasters = <<DisasterRow(ReportData(ReportShort)),
                     DisasterRow(ReportData(ReportLong))>>
    /\ alerts = <<>>
    /\ risk = [c \in Counties |-> 0]
    /\ stamped = [c \in Counties |-> FALSE]
    /\ workers = [w \in WorkerIds |-> [status |-> "available", current_disaster_id |-> Null]]
    /\ cyc = [c \in Cycles |-> IdleCycle]
    /\ dispatches = <<>>
    /\ gen = IdleGen
    /\ proc = ServingProc
    /\ response = NoResponse
    /\ call = NoCall
    /\ pool = IdlePool
    /\ env = QuietEnv

NextRequests ==
    \/ \E w \in RequestWorkers, d \in 1..MaxDisasters : dispatch(w, d)
    \/ \E d \in 1..MaxDisasters : send_alert(d, Null)
    \/ \E n \in 1..MaxAlerts : run_send(n)
    \/ \E id \in 1..MaxDisasters : resolve_disaster(id)

SpecRequests == InitRequests /\ [][NextRequests]_vars

\* The four adapters, called on their own with every transport outcome.
InitAdapters ==
    /\ InitTables
    /\ proc = ServingProc
    /\ env = [QuietEnv EXCEPT
                !.readings = {CalmReading, [rainfall_mm |-> 45, temp_c |-> 25]}]

NextAdapters == CallWeather \/ CallEarthquakes \/ CallWildfires \/ CallForecast \/ CallReturned

SpecAdapters == InitAdapters /\ [][NextAdapters]_vars

\* Any number of callers up to NumCallers inside _generate at once.
NextPool ==
    \/ \E k \in Callers : run_in_executor(k)
    \/ WorkerTakes
    \/ \E k \in Callers : InvocationEnds(k)

SpecPool == InitAdapters /\ [][NextPool]_vars

\* The parsing jobs, with every answer of the model.
NextFallback == CallScore \/ CallSms \/ CallPrediction \/ CallReturned

SpecFallback == InitAdapters /\ [][NextFallback]_vars

\* Runs of the cycle and calls of _generate in which every awaited call
\* returns or fails in the end: a run that has started goes on taking its
\* steps, a call of _generate goes on through its attempts and its sleeps.
\* Whether a tick comes, and whether a caller comes, is left open.
InitLive ==
    /\ InitTables
    /\ proc = ServingProc
    /\ env = [QuietEnv EXCEPT
                !.weatherFails = BOOLEAN,
                !.riskReplies = {[kind |-> "raise", score |-> 0],
                                 [kind |-> "json", score |-> 55]},
                !.writes = {"ok", "error"},
                !.quakeFeeds = {<<QuakeReading(QuakeE3), QuakeReading(QuakeE2)>>},
                !.fireBatches = {FireBatch(8, 3100, 35600)},
                !.modelOutcomes = {[ok |-> TRUE, err |-> ErrAuth],
                                   [ok |-> FALSE, err |-> ErrQuota],
                                   [ok |-> FALSE, err |-> ErrAuth]}]

NextLive ==
    \/ \E c \in Cycles : TimerJob(c)
    \/ \E c \in Cycles : CycleStep(c)
    \/ GenCall
    \/ GenInvoke
    \/ GenWake
    \/ GenDone

SpecLive ==
    /\ InitLive
    /\ [][NextLive]_vars
    /\ \A c \in Cycles : WF_vars(CycleStep(c))
    /\ WF_vars(GenInvoke)
    /\ WF_vars(GenWake)

\* Runs of the cycle over a table of more counties than the loop takes:
\* NumCounties more than CountyPrefix.
InitPrefix ==
    /\ disasters = <<>>
    /\ alerts = <<>>
    /\ risk = [c \in 1..(CountyPrefix + NumCounties) |-> 0]
    /\ stamped = [c \in 1..(CountyPrefix + NumCounties) |-> FALSE]
    /\ workers = [w \in WorkerIds |-> [status |-> "available", current_disaster_id |-> Null]]
    /\ cyc = [c \in Cycles |-> IdleCycle]
    /\ dispatches = <<>>
    /\ gen = IdleGen
    /\ proc = ServingProc
    /\ response = NoResponse
    /\ call = NoCall
    /\ pool = IdlePool
    /\ env = [QuietEnv EXCEPT
                !.riskReplies = {[kind |-> "json", score |-> 55],
                                 [kind |-> "json", score |-> 80]}]

NextPrefix ==
    \/ \E c \in Cycles : TimerJob(c)
    \/ \E c \in Cycles : ScoreCounty(c)
    \/ \E c \in Cycles : FetchQuakes(c)
    \/ \E c \in Cycles : FetchFires(c)
    \/ \E c \in Cycles : EndCycle(c)

SpecPrefix == InitPrefix /\ [][NextPrefix]_vars

\* Every handler that writes, around the runs of the cycle, the requests
\* naming incident 1 and worker 1.
NextRegions ==
    \/ TimerJob(1)
    \/ ScoreCounty(1)
    \/ FetchQuakes(1)
    \/ QuakeCheck(1)
    \/ QuakeInsert(1)
    \/ FetchFires(1)
    \/ FireCheck(1)
    \/ FireInsert(1)
    \/ EndCycle(1)
    \/ \E r \in env.reports : submit_report(r)
    \/ resolve_disaster(1)
    \/ dispatch(1, 1)
    \/ send_alert(1, Null)
    \/ run_send(1)

SpecRegions == Init /\ [][NextRegions]_vars

\* The process with no key for the model: runs of the cycle, and the five
\* jobs called one after another.
InitOffline ==
    /\ InitTables
    /\ proc = ServingProc
    /\ env = [QuietEnv EXCEPT
                !.configured = FALSE,
                !.weatherFails = BOOLEAN,
                !.readings = {[rainfall_mm |-> 45, temp_c |-> 25]},
                !.mocks = {[rainfall_mm |-> 10, temp_c |-> 25]},
                !.jitter = {0, MaxJitter},
                !.riskReplies = {[kind |-> "raise", score |-> 0],
                                 [kind |-> "json", score |-> 55]}]

NextOffline ==
    \/ \E c \in Cycles : TimerJob(c)
    \/ \E c \in Cycles : ScoreCounty(c)
    \/ \E c \in Cycles : FetchQuakes(c)
    \/ \E c \in Cycles : FetchFires(c)
    \/ \E c \in Cycles : EndCycle(c)
    \/ \E j \in Jobs : JobCall(j)
    \/ JobReturn
    \/ JobOver

SpecOffline == InitOffline /\ [][NextOffline]_vars

\* The registrar among reports and resolutions of incident 1, its runs one
\* after the other (one slot serves for them all): feeds with a strong event, a
\* moderate one behind a weak one, and six events; small and large clusters
\* at two places.
InitRegistrar ==
    /\ InitTables
    /\ proc = ServingProc
    /\ env = [QuietEnv EXCEPT
                !.quakeFeeds = {<<QuakeReading(QuakeE4)>>,
                                <<QuakeReading(QuakeE3), QuakeReading(QuakeE1)>>,
                                LongFeed},
                !.fireBatches = {FireBatch(5, 3100, 35600), FireBatch(8, 3100, 35600),
                                 FireBatch(25, -2000, 38000)}]

NextRegistrar ==
    \/ StartCycleAlone(1)
    \/ \E c \in Cycles : ScoreCounty(c)
    \/ \E c \in Cycles : FetchQuakes(c)
    \/ \E c \in Cycles : QuakeCheck(c)
    \/ \E c \in Cycles : QuakeInsert(c)
    \/ \E c \in Cycles : FetchFires(c)
    \/ \E c \in Cycles : FireCheck(c)
    \/ \E c \in Cycles : FireInsert(c)
    \/ \E c \in Cycles : EndCycle(c)
    \/ \E r \in env.reports : submit_report(r)
    \/ resolve_disaster(1)

SpecRegistrar == InitRegistrar /\ [][NextRegistrar]_vars

\* send_bulk_sms with every list of numbers and every answer of the gateway.
NextSms == CallSendCount \/ CallReturned

SpecSms == InitAdapters /\ [][NextSms]_vars

\* Lists of recipient numbers given to send_bulk_sms.
NextPhones == CallSendBulk \/ CallReturned

SpecPhones == InitAdapters /\ [][NextPhones]_vars

\* The five jobs, one call after another, the key configured or not.
NextJobs ==
    \/ \E j \in Jobs : JobCall(j)
    \/ GenInvoke
    \/ GenWake
    \/ JobReturn
    \/ JobOver

SpecJobs == InitGen /\ [][NextJobs]_vars

---------------------------------------------------------------------------
(* Properties. *)

UsgsRows == {i \in DOMAIN disasters : disasters[i].source = "usgs"}
FirmsRows == {i \in DOMAIN disasters : disasters[i].source = "nasa_firms"}
WildfireRows == {i \in DOMAIN disasters : disasters[i].type = "Wildfire"}

\* C1: a seismic event of magnitude >= 3.5 that the adapter returns in
\* several cycles run one after the other is registered once: no two
\* Earthquake incidents of the seismic source carry the same coordinates.
C1_QuakeRegisteredOnce ==
    \A i, j \in UsgsRows :
        (disasters[i].lat = disasters[j].lat /\ disasters[i].lng = disasters[j].lng)
            => i = j

\* C2: a dispatch whose recipient list is empty, once its background task
\* has run, has appended one AlertRecord for its incident, with recipient
\* count 0.
C2_EmptyDispatchRecorded ==
    \A n \in DOMAIN dispatches :
        (dispatches[n].phase = "done" /\ dispatches[n].phones = <<>>)
            => /\ dispatches[n].alert_id \in DOMAIN alerts
               /\ alerts[dispatches[n].alert_id].disaster_id = dispatches[n].disaster_id
               /\ alerts[dispatches[n].alert_id].recipients_count = 0

\* C3: both messages generate_sms_alert returns have at most 160
\* characters, whatever the incident and whatever the model answered.
C3_SmsWithinCap ==
    \A n \in DOMAIN dispatches :
        dispatches[n].english.len <= 160 /\ dispatches[n].swahili.len <= 160

\* C4: the score a cycle persists onto a county is within 0..100, whatever
\* the reading and whatever the model answered.
C4_RiskScoreInRange ==
    \A c \in Counties : 0 <= risk[c] /\ risk[c] <= 100

\* C5: runs of the cycle that overlap and observe the same seismic event
\* and the same hotspot batch create at most one incident for each.
C5_OverlapRegistersOnce ==
    Cardinality(UsgsRows) <= 1 /\ Cardinality(FirmsRows) <= 1

\* C6: when the cluster query found no matching Wildfire incident, a run
\* that has finished its hotspot step on a batch of n hotspots has added no
\* incident for n <= 5, one Wildfire incident of severity Medium for
\* 6 <= n <= 20, and one of severity High for n > 20.
C6_ClusterThresholds ==
    \A c \in Cycles :
        (cyc[c].pc = "done" /\ ~cyc[c].existing) =>
            LET n == cyc[c].fires.n
                id == cyc[c].fireId
                added == Len(disasters) - cyc[c].before
            IN  /\ n <= 5 => (added = 0 /\ id = 0)
                /\ n > 5 =>
                     /\ added = 1
                     /\ id = Len(disasters)
                     /\ disasters[id].type = "Wildfire"
                     /\ disasters[id].source = "nasa_firms"
                     /\ disasters[id].severity = IF n > 20 THEN "High" ELSE "Medium"

C6_Witness ==
    \E c \in Cycles :
        /\ cyc[c].pc = "done" /\ ~cyc[c].existing
        /\ cyc[c].fires.n = 25
        /\ cyc[c].fireId \in DOMAIN disasters
        /\ disasters[cyc[c].fireId].severity = "High"

\* C7: however many runs, one after the other, observe a qualifying batch
\* with the same first hotspot, there is never more than one Wildfire
\* incident, and there is exactly one once such a run has finished.
C7_ClusterIdempotent ==
    /\ Cardinality(WildfireRows) <= 1
    /\ \A c \in Cycles :
          (cyc[c].pc = "done" /\ cyc[c].fires.n > 5) => Cardinality(WildfireRows) = 1

\* A later run found the incident of an earlier one and inserted nothing.
C7_Witness ==
    \E c \in Cycles :
        /\ cyc[c].pc = "done" /\ cyc[c].fires.n > 5
        /\ cyc[c].existing /\ cyc[c].fireId = 0
        /\ Cardinality(WildfireRows) = 1

\* C8: no step of any operation takes an incident from resolved back to
\* active, or removes it.
C8_StatusMonotonic ==
    [][\A i \in DOMAIN disasters :
          disasters[i].status = "resolved" =>
              (i \in DOMAIN disasters' /\ disasters'[i].status = "resolved")]_vars

\* A resolved incident, with the table full, a run at its end, and a worker
\* dispatch and an alert dispatch for that incident behind it.
C8_Witness ==
    /\ Len(disasters) = MaxDisasters
    /\ disasters[1].status = "resolved"
    /\ workers[1].status = "deployed"
    /\ \E n \in DOMAIN dispatches : dispatches[n].phase = "done"
    /\ \E c \in Cycles : cyc[c].pc = "done"

\* C9: when every attempt fails with a capacity error, _generate has made
\* the initial call and three retries, after waits of 5, 15 and 30 seconds,
\* by the time it raises.
C9_ThreeRetries ==
    (/\ gen.pc = "raised"
     /\ gen.errs # <<>>
     /\ \A n \in DOMAIN gen.errs : gen.errs[n].capacity)
        => (gen.calls = 1 + 3 /\ gen.waits = <<5, 15, 30>>)

\* C10: an error that is not a capacity error ends the call at once: it is
\* the last error of the call, the call has raised, and no wait follows it.
C10_NonTransientImmediate ==
    \A n \in DOMAIN gen.errs :
        ~gen.errs[n].capacity =>
            /\ n = Len(gen.errs)
            /\ gen.pc = "raised"
            /\ Len(gen.waits) = n - 1

\* C11: whatever _generate did (a text, capacity errors to exhaustion, any
\* other error, no key) and whatever the text parses as, each of the five
\* jobs returns: its own value when the body ran through, its fallback when
\* the body raised; no job ends by raising.
C11_JobsNeverRaise ==
    gen.pc = "job_over" =>
        /\ gen.result \in {"value", "fallback"}
        /\ (gen.errs # <<>> /\ gen.calls = Len(gen.errs)) => gen.result = "fallback"
        /\ gen.calls = 0 => gen.result = "fallback"

\* The scoring job fell back after three capacity errors and their waits.
C11_Witness ==
    /\ gen.pc = "job_over"
    /\ gen.job = "score_county_risk"
    /\ gen.result = "fallback"
    /\ gen.waits = <<5, 15, 30>>

\* C12: a failing weather fetch, a failing scoring call, a failing seismic
\* fetch or a failing hotspot fetch never ends a run: a run is cut short
\* only by a write that raised, and a run that reached its end has scored
\* and stamped every county of the prefix and made both fetches, whatever
\* failed on the way.
C12_SourceFailuresAbsorbed ==
    \A c \in Cycles :
        /\ cyc[c].pc = "aborted" => cyc[c].writeFailed
        /\ cyc[c].pc = "done" =>
              /\ cyc[c].i = ScoredPrefix + 1
              /\ \A n \in 1..ScoredPrefix : stamped[CountiesByName[n]]
              /\ cyc[c].ran = {"quakes", "fires"}

\* A run that reached its end although all four sources failed in it.
C12_Witness ==
    \E c \in Cycles :
        /\ cyc[c].pc = "done"
        /\ cyc[c].faults = {"weather", "score", "quakes", "fires"}
        /\ cyc[c].ran = {"quakes", "fires"}
        /\ cyc[c].i = ScoredPrefix + 1

\* C13: a run in which a write raised still runs to its end: it is not cut
\* short, and at its end every county of the prefix has been visited and
\* both fetches have been made.
C13_WriteFailureIsolated ==
    \A c \in Cycles :
        (cyc[c].writeFailed /\ cyc[c].pc \in {"done", "aborted"}) =>
            /\ cyc[c].pc = "done"
            /\ cyc[c].i = ScoredPrefix + 1
            /\ cyc[c].ran = {"quakes", "fires"}

\* C14: once lifespan has reached its yield, the cycle of process start has
\* been run: start_scheduler's call of _job() ran _collect_and_analyse.
C14_StartupCycleRuns ==
    proc.phase = "serving" => proc.startup = "ran"

\* C15: when every incident the SELECT of a registration rule returned is
\* resolved, the rule goes on to insert a new incident, as when nothing was
\* returned.
C15_ResolvedNotMatched ==
    \A c \in Cycles :
        (cyc[c].matched # {} /\ cyc[c].matched \subseteq {"resolved"})
            => cyc[c].pc \in {"quake_insert", "fire_insert"}

\* C16: when a run has finished, every event of magnitude >= 3.5 that the
\* seismic adapter returned to it, at whatever position of the list, has an
\* Earthquake incident at its coordinates; and no Earthquake incident of the
\* seismic source stems from a weaker event.
C16_EveryEventRegistered ==
    /\ \A c \in Cycles :
          cyc[c].pc = "done" =>
              \A n \in DOMAIN cyc[c].quakes :
                  LET q == cyc[c].quakes[n]
                  IN  q.magnitude >= MinMagnitude =>
                          \E id \in DOMAIN disasters :
                              /\ disasters[id].type = "Earthquake"
                              /\ disasters[id].lat = {q.lat}
                              /\ disasters[id].lng = {q.lng}
    /\ \A id \in UsgsRows : disasters[id].severity # "Low"

\* C17: the AlertRecord of a dispatch carries the number of phone numbers
\* that were submitted to the gateway, whatever the gateway reported.
C17_AttemptedCountRecorded ==
    \A n \in DOMAIN dispatches :
        (dispatches[n].phase = "done" /\ dispatches[n].alert_id \in DOMAIN alerts)
            => alerts[dispatches[n].alert_id].recipients_count
                   = Len(dispatches[n].phones)

\* Whether the request that response r answers named a row that is not
\* there (rows are never deleted, so what is missing now was missing then).
NamesMissingRow(r) ==
    \/ /\ r.handler = "dispatch"
       /\ (r.worker_id \notin WorkerIds \/ r.disaster_id \notin DOMAIN disasters)
    \/ /\ r.handler = "send_alert"
       /\ r.disaster_id \notin DOMAIN disasters

\* C18: a worker dispatch that names a missing worker or a missing incident,
\* and an alert dispatch that names a missing incident, answer 404 and
\* change nothing: no worker row, no generated text or queued send, no
\* AlertRecord, no call of the model.
C18_NotFoundNoEffects ==
    [][(response' # response /\ NamesMissingRow(response')) =>
          /\ response'.status = 404
          /\ UNCHANGED <<disasters, alerts, risk, stamped, workers, dispatches, gen,
                         call, pool>>]_vars

\* A worker dispatch for a missing incident has just been refused, after
\* other requests had their effects.
C18_Witness ==
    /\ response.handler = "dispatch"
    /\ response.status = 404
    /\ response.worker_id \in WorkerIds
    /\ response.disaster_id \notin DOMAIN disasters
    /\ workers[response.worker_id].status = "deployed"
    /\ dispatches # <<>>

\* C19: a resolve that names a missing incident answers 404.
C19_ResolveMissingNotFound ==
    (response.handler = "resolve_disaster" /\ response.disaster_id \notin DOMAIN disasters)
        => response.status = 404

\* C20: an assessment made by the fallback (its confidence is Low) has the
\* score clamp(rainfall*2.5 + max(0, temp-32)*1.5 + jitter, 0, 100), taken
\* to a whole number, with the jitter within 0..15; its type is Flood, Drought
\* or None; and for rainfall 45, temperature 25, jitter 0 it is 100 and Flood.
C20_FallbackFormula ==
    \A c \in Cycles :
        LET w == cyc[c].weather
            j == cyc[c].jitter
            a == cyc[c].risk
        IN  a.confidence = "Low" =>
                /\ j \in 0..15
                /\ a.risk_score =
                     Max(0, Min(100, TruncHalf(5 * w.rainfall_mm
                                               + 3 * Max(0, w.temp_c - 32) + 2 * j)))
                /\ a.disaster_type \in {"Flood", "Drought", "None"}
                /\ (w.rainfall_mm = 45 /\ w.temp_c = 25 /\ j = 0) =>
                       (a.risk_score = 100 /\ a.disaster_type = "Flood")

\* The call on record could not get the real data.
CallFailed ==
    \/ call.input[1] # "ok"
    \/ call.input[2] \in {"notjson", "notobject", "incomplete"}
    \/ (call.fn = "fetch_earthquakes" /\ \E n \in DOMAIN call.input[3] : ~call.input[3][n].ok)

\* C21: no adapter raises, whatever the transport did and whatever the body
\* held.  fetch_weather returns a reading with temperature, humidity, wind
\* speed, description and rainfall, the synthetic one (tagged mock) when the
\* real one could not be had; fetch_earthquakes and fetch_wildfires return a
\* list, empty on failure; fetch_forecast returns a structure, empty on
\* failure.
C21_AdaptersNeverRaise ==
    call.fn \in {"fetch_weather", "fetch_earthquakes", "fetch_wildfires", "fetch_forecast"} =>
        /\ ~call.raised
        /\ call.fn = "fetch_weather" =>
              /\ {"temp_c", "humidity", "wind_speed", "description", "rainfall_mm"}
                     \subseteq DOMAIN call.result
              /\ CallFailed <=> "mock" \in DOMAIN call.result
        /\ call.fn \in {"fetch_earthquakes", "fetch_wildfires"} =>
              /\ DOMAIN call.result = 1..Len(call.result)
              /\ CallFailed => call.result = <<>>
        /\ call.fn = "fetch_forecast" =>
              /\ call.result.kind = "object"
              /\ (call.input[1] # "ok" \/ call.input[2] = "notjson") => call.result.keys = {}

\* C27: every event fetch_earthquakes returns carries the severity of its
\* magnitude (High from 5.0, Medium from 3.5 to below 5.0, else Low); when
\* all went well there is one event per feature, in order; when the loop
\* raised on any feature the result is empty, not the events before it.
C27_SeverityAndAllOrNothing ==
    call.fn = "fetch_earthquakes" =>
        /\ \A n \in DOMAIN call.result :
              LET m == call.result[n].magnitude
              IN  call.result[n].severity =
                     IF m >= 50 THEN "High" ELSE IF m >= 35 THEN "Medium" ELSE "Low"
        /\ ~CallFailed =>
              /\ Len(call.result) = Len(call.input[3])
              /\ \A n \in DOMAIN call.result :
                    call.result[n].magnitude = call.input[3][n].event.magnitude
        /\ (\E n \in DOMAIN call.input[3] : ~call.input[3][n].ok) => call.result = <<>>

\* The second feature was broken, the first was a strong event: nothing was
\* returned.
C27_Witness ==
    /\ call.fn = "fetch_earthquakes"
    /\ call.input[1] = "ok"
    /\ Len(call.input[3]) = 2
    /\ call.input[3][1].ok /\ call.input[3][1].event.magnitude >= 50
    /\ ~call.input[3][2].ok
    /\ call.result = <<>>

\* The tables as a reader of the database finds them: every score within
\* range and written together with its stamp, no two active incidents of a
\* feed for the same place.
TablesSound ==
    /\ \A c \in Counties : 0 <= risk[c] /\ risk[c] <= MaxScore /\ (risk[c] # 0 => stamped[c])
    /\ \A i, j \in UsgsRows \cup FirmsRows :
          (/\ disasters[i].type = disasters[j].type
           /\ disasters[i].lat = disasters[j].lat
           /\ disasters[i].lng = disasters[j].lng) => i = j

\* C22: once shutdown has been requested no run of the cycle begins, and
\* once stop_scheduler has returned none is executing and the tables no
\* longer change; a run that was in flight at the request either goes on to
\* its end or is lost with the process, and either way the tables are
\* sound: every score within 0..100, no duplicate incident.
C22_GracefulShutdown ==
    /\ [](proc.phase \in {"stopping", "stopped", "dead"} => TablesSound)
    /\ [](proc.phase \in {"stopped", "dead"} => InFlight = {})
    /\ [][proc.phase \in {"stopping", "stopped", "dead"} =>
            \A c \in Cycles : cyc[c].pc = "idle" => cyc'[c].pc = "idle"]_vars
    /\ [][proc.phase \in {"stopped", "dead"} =>
            UNCHANGED <<disasters, alerts, risk, stamped, cyc>>]_vars

\* stop_scheduler has returned after waiting for a run that was in flight
\* at the request and that scored its counties and registered incidents.
C22_Witness ==
    /\ proc.phase = "stopped"
    /\ proc.inflight # {}
    /\ \A c \in Counties : stamped[c]
    /\ Len(disasters) >= 2

\* C23: at most 4 invocations of the model are in flight at any moment,
\* however many callers are inside _generate; the others have their work
\* item waiting in the queue of the shared pool.
C23_AtMostFourInFlight ==
    /\ Cardinality(pool.running) <= 4
    /\ pool.running \cap Queued = {}
    /\ Cardinality(pool.running) + Len(pool.queued) <= NumCallers

\* Four invocations are running and a fifth caller is waiting.
C23_Witness ==
    /\ Cardinality(pool.running) = 4
    /\ pool.queued # <<>>

\* The place of an event in the order text, response, gateway, record.
EventRank(ev) ==
    CASE ev = "text" -> 1 [] ev = "response" -> 2 [] ev = "gateway" -> 3 [] ev = "record" -> 4

\* C24: the events of a dispatch come in the order text generated,
\* response returned, recipients submitted to the gateway, AlertRecord
\* written; the response is out while the dispatch is still queued; the
\* records of dispatches that run side by side, for the same incident too,
\* are each their own row, and no row of the table is changed or removed.
C24_DispatchOrder ==
    /\ [](\A n \in DOMAIN dispatches :
            LET t == dispatches[n]
            IN  /\ SubSeq(t.log, 1, 2) = <<"text", "response">>
                /\ \A i, j \in DOMAIN t.log : i < j => EventRank(t.log[i]) < EventRank(t.log[j])
                /\ t.phase = "queued" => t.log = <<"text", "response">>
                /\ (t.phase = "done" /\ t.phones # <<>>) =>
                      /\ t.alert_id \in DOMAIN alerts
                      /\ alerts[t.alert_id] = AlertRow(t, t.sent)
                      /\ \A m \in DOMAIN dispatches \ {n} :
                            dispatches[m].phase = "done" => dispatches[m].alert_id # t.alert_id)
    /\ [][\A i \in DOMAIN alerts : i \in DOMAIN alerts' /\ alerts'[i] = alerts[i]]_vars

\* Two dispatches for incident 1 went through the gateway side by side,
\* the second being submitted before the first was recorded, and each has
\* its record.
C24_Witness ==
    /\ Len(dispatches) = 2
    /\ \A n \in DOMAIN dispatches :
          /\ dispatches[n].disaster_id = 1
          /\ dispatches[n].log = <<"text", "response", "gateway", "record">>
    /\ dispatches[1].alert_id = 2
    /\ dispatches[2].alert_id = 1
    /\ Len(alerts) = 2

\* C25: the score and the stamp of a county change only in a step of the
\* county loop of a run, and then only those of the county that step is
\* at; no request handler and no registration step changes them, and the
\* set of counties never changes.
C25_OnlyScorerWritesRegions ==
    /\ [][(risk' # risk \/ stamped' # stamped) =>
            \E c \in Cycles :
                /\ cyc[c].pc = "counties"
                /\ cyc[c].i <= ScoredPrefix
                /\ cyc'[c].i = cyc[c].i + 1
                /\ response' = response
                /\ disasters' = disasters
                /\ \A k \in Counties \ {CountiesByName[cyc[c].i]} :
                      risk'[k] = risk[k] /\ stamped'[k] = stamped[k]]_vars
    /\ [][DOMAIN risk' = DOMAIN risk /\ DOMAIN stamped' = DOMAIN stamped]_vars

\* Every county has been scored and stamped by a run that went on to
\* register incidents; a report, a worker dispatch, an alert dispatch and a
\* resolution have been served.
C25_Witness ==
    /\ \A k \in Counties : stamped[k] /\ risk[k] > 0
    /\ \E i \in DOMAIN disasters : disasters[i].source = "usgs"
    /\ \E i \in DOMAIN disasters : disasters[i].source = "field_worker"
    /\ \E i \in DOMAIN disasters : disasters[i].status = "resolved"
    /\ workers[1].status = "deployed"
    /\ \E n \in DOMAIN dispatches : dispatches[n].phase = "done"

\* C26: when the model returned text that does not parse, each of
\* score_county_risk, generate_sms_alert and generate_72hr_prediction
\* returns what it returns, on the same inputs, when _generate raised: its
\* fallback (for the scorer, the fallback on the same draw of the jitter).
C26_ParseFailureIsFailure ==
    (call.fn \in {"score_county_risk", "generate_sms_alert", "generate_72hr_prediction"}
       /\ call.input[3].kind \in {"malformed", "raise"}) =>
        /\ call.fn = "score_county_risk" =>
              /\ call.result = fallback_risk(call.input[1], call.input[2])
              /\ call.result =
                    score_county_risk(call.input[1], [kind |-> "raise", score |-> 0],
                                      call.input[2])
        /\ call.fn = "generate_sms_alert" =>
              /\ call.result = fallback_sms(DisasterRow(ReportData(call.input[1])))
              /\ call.result =
                    generate_sms_alert(DisasterRow(ReportData(call.input[1])), SmsRaise)
        /\ call.fn = "generate_72hr_prediction" =>
              /\ call.result = <<>>
              /\ call.result =
                    generate_72hr_prediction([kind |-> "raise", threats |-> 0])

\* The scorer got an unreadable text for a wet reading and returned the
\* fallback for it, not a score of its own.
C26_Witness ==
    /\ call.fn = "score_county_risk"
    /\ call.input[3].kind = "malformed"
    /\ call.input[1].rainfall_mm = 45
    /\ call.result.risk_score = MaxScore
    /\ call.result.disaster_type = "Flood"

\* C29: a run of the cycle that has started returns to the scheduler,
\* finished or aborted, and every step brings it nearer: the number of steps
\* it can still take is bounded and goes down with each one.  A call of
\* _generate that has started returns a text or raises, after at most 3
\* invocations of the model.
C29_CycleTerminates ==
    /\ \A c \in Cycles : (cyc[c].pc # "idle") ~> (cyc[c].pc = "idle")
    /\ (gen.pc \in {"attempt", "sleeping"}) ~> (gen.pc \in {"returned", "raised"})
    /\ [](gen.calls <= 3 /\ \A c \in Cycles : StepsLeft(cyc[c]) <= MaxSteps)
    /\ [][\A c \in Cycles :
            (cyc[c].pc # "idle" /\ cyc'[c] # cyc[c]) =>
                StepsLeft(cyc'[c]) < StepsLeft(cyc[c])]_vars

\* A run has aborted on a failed insert after scoring its counties, and a
\* call of _generate has raised after its third invocation.
C29_Witness ==
    /\ \E c \in Cycles :
          /\ cyc[c].pc = "aborted"
          /\ cyc[c].writeFailed
          /\ cyc[c].i > ScoredPrefix
    /\ gen.pc = "raised"
    /\ gen.calls = 3

\* C30: a run scores the first 10 counties in name order and no other: a
\* run that has left the county loop has stamped those ten, and whatever
\* runs have been made, every county after the tenth in name order has the
\* score it started with and no stamp.
C30_OnlyPrefixScored ==
    /\ \A n \in 11..Len(risk) :
          risk[CountiesByName[n]] = 0 /\ ~stamped[CountiesByName[n]]
    /\ \A c \in Cycles :
          cyc[c].pc \in {"quake_loop", "done"} =>
              \A n \in 1..10 : n <= Len(risk) => stamped[CountiesByName[n]]
    /\ \A c \in Cycles : cyc[c].pc = "counties" => cyc[c].i <= 11

\* A run is over on a table of more than ten counties: the first ten by
\* name carry a score, the others do not.
C30_Witness ==
    /\ Len(risk) > 10
    /\ \E c \in Cycles : cyc[c].pc = "done"
    /\ \A n \in 1..10 : risk[CountiesByName[n]] > 0
    /\ risk[CountiesByName[1]] # risk[CountiesByName[10]]
    /\ ~stamped[CountiesByName[11]]

\* C31: every alert record names an incident that exists; no step changes
\* or removes an alert record, none removes an incident or turns it into
\* another, and neither table ever gets shorter.
C31_RecordsKept ==
    /\ [](\A a \in DOMAIN alerts : alerts[a].disaster_id \in DOMAIN disasters)
    /\ [][/\ Len(alerts') >= Len(alerts)
          /\ Len(disasters') >= Len(disasters)
          /\ \A a \in DOMAIN alerts : alerts'[a] = alerts[a]
          /\ \A i \in DOMAIN disasters :
                /\ disasters'[i].type = disasters[i].type
                /\ disasters'[i].source = disasters[i].source
                /\ disasters'[i].lat = disasters[i].lat
                /\ disasters'[i].lng = disasters[i].lng]_vars

\* An alert record for incident 1, which has since been resolved, with
\* further incidents registered and reported after it.
C31_Witness ==
    /\ Len(alerts) >= 1
    /\ alerts[1].disaster_id = 1
    /\ disasters[1].status = "resolved"
    /\ Len(disasters) = MaxDisasters
    /\ response.handler = "send_alert" /\ response.status = 200

\* C32: every wait of _generate is followed by another invocation of the
\* model: a call that is over has made more invocations than waits, so a
\* call whose attempts all failed for capacity raises without a wait after
\* the last of them.
C32_NoTrailingWait ==
    (gen.pc \in {"returned", "raised"} /\ gen.waits # <<>>) =>
        Len(gen.waits) < gen.calls

\* C33: with no key configured _generate raises at once: the model is never
\* invoked and nothing is waited for, every job that is called ends with
\* its fallback, and a run of the cycle writes for every county of the
\* prefix the fallback score of its reading, of confidence Low.
C33_UnconfiguredFallsBack ==
    /\ [](gen.calls = 0 /\ gen.waits = <<>> /\ gen.pc \in {"idle", "raised", "job_over"})
    /\ [](gen.pc = "job_over" => gen.result = "fallback")
    /\ [](\A c \in Cycles :
            /\ (cyc[c].pc = "counties" /\ cyc[c].i > 1) =>
                  /\ cyc[c].risk = fallback_risk(cyc[c].weather, cyc[c].jitter)
                  /\ cyc[c].risk.confidence = "Low"
                  /\ risk[CountiesByName[cyc[c].i - 1]] = cyc[c].risk.risk_score
            /\ cyc[c].pc \in {"quake_loop", "done"} =>
                  \A n \in 1..Min(10, Len(risk)) : stamped[CountiesByName[n]])
    /\ [][gen.pc = "idle" /\ gen'.pc # "idle" => gen'.pc = "raised"]_vars

\* A run has scored its counties from the fallback, one of them to a
\* flood score, and a job called meanwhile has ended with its fallback.
C33_Witness ==
    /\ ~env.configured
    /\ \E c \in Cycles : cyc[c].pc = "done"
    /\ \A k \in Counties : stamped[k]
    /\ \E k \in Counties : risk[k] = MaxScore
    /\ gen.pc = "job_over"
    /\ gen.job = "score_county_risk"
    /\ gen.result = "fallback"

C36_OnlyEnglishSubmitted ==
    \A n \in DOMAIN dispatches :
        LET t == dispatches[n]
        IN  /\ t.english.lang = "en"
            /\ t.swahili.lang = "sw"
            /\ t.message_en = t.english
            /\ t.message_sw = t.swahili
            /\ t.submitted \subseteq {t.english}
            /\ t.swahili \notin t.submitted
            /\ ("gateway" \in {t.log[i] : i \in DOMAIN t.log}) => t.submitted = {t.english}
            /\ t.alert_id \in DOMAIN alerts =>
                 /\ alerts[t.alert_id].message_en = t.english
                 /\ alerts[t.alert_id].message_sw = t.swahili

\* A dispatch to a worker went through the gateway and was recorded, the
\* texts being the model's own.
C36_Witness ==
    \E n \in DOMAIN dispatches :
        /\ dispatches[n].phase = "done"
        /\ dispatches[n].submitted = {Msg("en", 90)}
        /\ dispatches[n].swahili = Msg("sw", 160)
        /\ dispatches[n].alert_id \in DOMAIN alerts
        /\ alerts[dispatches[n].alert_id].message_sw = Msg("sw", 160)

\* C34: whatever list send_bulk_sms is given and however the gateway did
\* (no recipients, no client, one status per recipient, an answer without
\* recipients, an exception), the result has sent >= 0, failed >= 0 and
\* sent + failed equal to the number of numbers given.
C34_EveryRecipientCounted ==
    (call.fn = "send_bulk_sms" /\ ~call.raised) =>
        /\ call.result.sent >= 0
        /\ call.result.failed >= 0
        /\ call.result.sent + call.result.failed = Len(call.input[1])

\* The gateway answered for two numbers, one sent and one refused.
C34_Witness ==
    /\ call.fn = "send_bulk_sms"
    /\ Len(call.input[1]) = 2
    /\ call.input[2] = "answered"
    /\ call.input[3] = <<"Success", "InvalidPhoneNumber">>
    /\ call.result = [sent |-> 1, failed |-> 1]

\* C28: send_bulk_sms brings every recipient number into the one
\* international form +254...; the list it hands on has one entry per
\* number given, in the same order, and formatting a formatted number again
\* changes nothing.
C28_NumbersInternational ==
    call.fn = "send_bulk_sms" =>
        /\ Len(call.result) = Len(call.input)
        /\ \A n \in DOMAIN call.result :
              /\ StartsWith(call.result[n], <<"+", "2", "5", "4">>)
              /\ FormatNumber(call.result[n]) = call.result[n]

====
